---- MODULE Spec2Model ----
(***************************************************************************)
(* Model of sb, the per-workspace Docker sandbox manager (src/sb).         *)
(*                                                                         *)
(* Strings are sequences of one-character strings, so that the path and    *)
(* name conversions of the program are computed, not assumed.  The Docker  *)
(* daemon is the set `containers`; every SandboxManager call is a process  *)
(* that performs one Docker API request per step.                          *)
(***************************************************************************)
EXTENDS Integers, Sequences, FiniteSets, TLC

VARIABLES
    containers,  \* the Docker daemon's containers (records, see RuntimeCreate)
    nextId,      \* the next container id the daemon hands out
    ncalls,      \* number of manager calls started so far
    pc,          \* per process: position inside the current call
    call,        \* per process: arguments of the current call
    loc,         \* per process: local variables (sandbox, container snapshot)
    log,         \* per process: mutating Docker requests issued by the current call
    prompts,     \* per process: confirm_callback invocations of the current call
    result,      \* per process: "none", "ok", or the error raised
    ret,         \* per process: the returned value (<<>> or <<value>>)
    pre,         \* per process: the daemon's containers when the call began
    host,        \* the invoking host: its files, directories and os.environ
    mgr,         \* the SandboxManager's fields extra_mounts and env_passthrough
    app          \* a function applied on its own: its name, argument and value

vars == <<containers, nextId, ncalls, pc, call, loc, log, prompts, result, ret, pre,
          host, mgr, app>>

(***************************************************************************)
(* Bounds                                                                  *)
(***************************************************************************)
MaxCalls == 2       \* calls per behaviour when calls interleave (Spec)
MaxSeqCalls == 3    \* calls per behaviour when calls run one at a time (SeqSpec)
MaxMounts == 2      \* length of a list of extra mounts (MountSpec)
MaxEnv == 2         \* length of a list of environment entries (EnvSpec)

Procs == {1, 2}

(***************************************************************************)
(* Strings and paths (posixpath as used by sandbox.py and naming.py)       *)
(***************************************************************************)
HomeDir == <<"/", "u">>                \* Path.home()
Cwd == <<"/", "w", "/", "a">>          \* os.getcwd()

\* os.path.expanduser: a leading "~" alone or followed by "/" becomes the home
expanduser(path) ==
    IF path # <<>> /\ Head(path) = "~" /\ (Len(path) = 1 \/ path[2] = "/")
    THEN HomeDir \o Tail(path)
    ELSE path

RECURSIVE SplitSlash(_)
SplitSlash(s) ==
    IF s = <<>> THEN << <<>> >>
    ELSE LET r == SplitSlash(Tail(s)) IN
         IF Head(s) = "/" THEN << <<>> >> \o r
         ELSE << <<Head(s)>> \o Head(r) >> \o Tail(r)

RECURSIVE NormComps(_, _)
NormComps(comps, acc) ==
    IF comps = <<>> THEN acc
    ELSE LET c == Head(comps) IN
         IF c = <<>> \/ c = <<".">> THEN NormComps(Tail(comps), acc)
         ELSE IF c = <<".", ".">>
              THEN NormComps(Tail(comps),
                             IF acc = <<>> THEN acc ELSE SubSeq(acc, 1, Len(acc) - 1))
              ELSE NormComps(Tail(comps), Append(acc, c))

RECURSIVE JoinSlash(_)
JoinSlash(comps) ==
    IF comps = <<>> THEN <<>> ELSE <<"/">> \o Head(comps) \o JoinSlash(Tail(comps))

\* os.path.abspath: join with the cwd when relative, then normpath
abspath(path) ==
    LET full == IF path # <<>> /\ Head(path) = "/" THEN path
                ELSE Cwd \o <<"/">> \o path
        norm == JoinSlash(NormComps(SplitSlash(full), <<>>))
    IN IF norm = <<>> THEN <<"/">> ELSE norm

\* os.path.basename: what follows the last "/"
basename(path) ==
    LET comps == SplitSlash(path) IN comps[Len(comps)]

(***************************************************************************)
(* naming.py                                                               *)
(***************************************************************************)
UpperLetters == <<"A", "B", "C", "D", "E", "F", "G", "H", "I", "J", "K", "L", "M",
                  "N", "O", "P", "Q", "R", "S", "T", "U", "V", "W", "X", "Y", "Z">>
LowerLetters == <<"a", "b", "c", "d", "e", "f", "g", "h", "i", "j", "k", "l", "m",
                  "n", "o", "p", "q", "r", "s", "t", "u", "v", "w", "x", "y", "z">>
Digits == {"0", "1", "2", "3", "4", "5", "6", "7", "8", "9"}

\* str.lower() on one character
LowerChar(c) ==
    IF \E i \in DOMAIN UpperLetters : UpperLetters[i] = c
    THEN LowerLetters[CHOOSE i \in DOMAIN UpperLetters : UpperLetters[i] = c]
    ELSE c

\* the characters the pattern [^a-z0-9\-_] keeps
NameChars == {LowerLetters[i] : i \in DOMAIN LowerLetters} \cup Digits \cup {"-", "_"}

RECURSIVE MapLowerSpace(_)
MapLowerSpace(s) ==
    IF s = <<>> THEN <<>>
    ELSE <<IF Head(s) = " " THEN "-" ELSE LowerChar(Head(s))>> \o MapLowerSpace(Tail(s))

RECURSIVE CollapseHyphens(_)
CollapseHyphens(s) ==
    IF Len(s) < 2 THEN s
    ELSE IF s[1] = "-" /\ s[2] = "-" THEN CollapseHyphens(Tail(s))
         ELSE <<Head(s)>> \o CollapseHyphens(Tail(s))

RECURSIVE StripLeft(_)
StripLeft(s) ==
    IF s # <<>> /\ Head(s) = "-" THEN StripLeft(Tail(s)) ELSE s

RECURSIVE StripRight(_)
StripRight(s) ==
    IF s # <<>> /\ s[Len(s)] = "-" THEN StripRight(SubSeq(s, 1, Len(s) - 1)) ELSE s

Sandbox == <<"s", "a", "n", "d", "b", "o", "x">>

\* faulty variant: hyphens are collapsed before the disallowed characters are removed
sanitize_dirname_CollapseFirst(name) ==
    LET lowered == MapLowerSpace(name)
        collapsed == CollapseHyphens(lowered)
        kept == SelectSeq(collapsed, LAMBDA c : c \in NameChars)
        stripped == StripRight(StripLeft(kept))
    IN IF stripped = <<>> THEN Sandbox ELSE stripped

sanitize_dirname(name) ==
    LET lowered == MapLowerSpace(name)
        kept == SelectSeq(lowered, LAMBDA c : c \in NameChars)
        collapsed == CollapseHyphens(kept)
        stripped == StripRight(StripLeft(collapsed))
    IN IF stripped = <<>> THEN Sandbox ELSE stripped

\* hashlib.sha256(abs_path).hexdigest()[:8], tabulated on the paths of the model
Hash8(abs_path) ==
    CASE abs_path = <<"/", "w", "/", "a">> -> <<"0", "a", "1", "b", "2", "c", "3", "d">>
      [] abs_path = <<"/", "u">> -> <<"e", "e", "0", "0", "e", "e", "0", "0">>
      [] OTHER -> <<"f", "f", "f", "f", "f", "f", "f", "f">>

\* faulty variant: the path is hashed as it was given
generate_name_RawPath(path) ==
    LET abs_path == abspath(path)
        sanitized == sanitize_dirname(basename(abs_path))
    IN <<"s", "b", "-">> \o sanitized \o <<"-">> \o Hash8(path)

generate_name(path) ==
    LET abs_path == abspath(path)
        sanitized == sanitize_dirname(basename(abs_path))
    IN <<"s", "b", "-">> \o sanitized \o <<"-">> \o Hash8(abs_path)

(***************************************************************************)
(* The Docker daemon, as docker-py presents it to sandbox.py               *)
(***************************************************************************)
TrueStr == <<"t", "r", "u", "e">>
NoLabels == [k \in {} |-> <<>>]

\* dict.get(key, default) on a container's labels
LabelGet(labels, key, default) ==
    IF key \in DOMAIN labels THEN labels[key] ELSE default

\* client.containers.get(name): <<>> stands for docker.errors.NotFound
GetByName(name) ==
    LET found == {c \in containers : c.name = name}
    IN IF found = {} THEN <<>> ELSE <<CHOOSE c \in found : TRUE>>

\* client.containers.get(container_id)
GetById(id) ==
    LET found == {c \in containers : c.id = id}
    IN IF found = {} THEN <<>> ELSE <<CHOOSE c \in found : TRUE>>

_container_to_sandbox_info(container) ==
    [name |-> LabelGet(container.labels, "sb.name", container.name),
     workspace |-> LabelGet(container.labels, "sb.workspace", <<>>),
     container_id |-> container.id]

\* faulty variant: the sb.managed label is not looked at
get_sandbox_AnyContainer(name) ==
    LET found == {c \in containers : c.name = name}
    IN IF found = {} THEN <<>>
       ELSE <<_container_to_sandbox_info(CHOOSE c \in found : TRUE)>>

get_sandbox(name) ==
    LET got == GetByName(name)
    IN IF got = <<>> THEN <<>>
       ELSE IF LabelGet(got[1].labels, "sb.managed", <<>>) # TrueStr THEN <<>>
       ELSE <<_container_to_sandbox_info(got[1])>>

get_sandbox_for_path(path) == get_sandbox(generate_name(path))

\* the labels create attaches
CreateLabels(sandbox_name, workspace) ==
    ("sb.managed" :> TrueStr) @@ ("sb.name" :> sandbox_name)
        @@ ("sb.workspace" :> workspace)

\* faulty variant: name=sandbox_name is not passed, the daemon names the container itself
NewContainer_Unnamed(id, sandbox_name, workspace) ==
    [id |-> id, name |-> <<"c">> \o <<<<"0", "1", "2", "3", "4", "5", "6", "7", "8", "9">>[id + 1]>>,
     status |-> "created", labels |-> CreateLabels(sandbox_name, workspace)]

\* the container client.containers.create makes: created, not started
NewContainer(id, sandbox_name, workspace) ==
    [id |-> id, name |-> sandbox_name, status |-> "created",
     labels |-> CreateLabels(sandbox_name, workspace)]

WithStatus(cs, id, status) ==
    {IF c.id = id THEN [c EXCEPT !.status = status] ELSE c : c \in cs}

Without(cs, id) == {c \in cs : c.id # id}

(***************************************************************************)
(* matching.py                                                             *)
(***************************************************************************)
\* str.lower()
lower(s) == [i \in 1..Len(s) |-> LowerChar(s[i])]

\* str.startswith(prefix)
StartsWith(s, prefix) ==
    Len(prefix) <= Len(s) /\ SubSeq(s, 1, Len(prefix)) = prefix

\* Python's `sub in s` on strings
Contains(s, sub) ==
    \E i \in 0..(Len(s) - Len(sub)) : SubSeq(s, i + 1, i + Len(sub)) = sub

\* the characters of [a-f0-9]
HexChars == {"a", "b", "c", "d", "e", "f"} \cup Digits

\* faulty variant: the group ends at the first hyphen that 8 hex characters follow
_extract_dirname_Lazy(sandbox_name) ==
    LET n == Len(sandbox_name)
        ends == {k \in 4..(n - 9) :
                    /\ sandbox_name[k + 1] = "-"
                    /\ \A i \in (k + 2)..(k + 9) : sandbox_name[i] \in HexChars}
    IN IF SubSeq(sandbox_name, 1, 3) = <<"s", "b", "-">> /\ ends # {}
       THEN SubSeq(sandbox_name, 4, CHOOSE k \in ends : \A j \in ends : k <= j)
       ELSE sandbox_name

\* re.match(r"^sb-(.+)-[a-f0-9]{8}$", sandbox_name): group 1, or the name itself.
\* The 8 hex characters are the last 8 and the hyphen before them is fixed by
\* the end anchor, so the greedy group is all that lies between.
_extract_dirname(sandbox_name) ==
    LET n == Len(sandbox_name)
        matches == /\ n >= 13
                   /\ SubSeq(sandbox_name, 1, 3) = <<"s", "b", "-">>
                   /\ sandbox_name[n - 8] = "-"
                   /\ \A i \in (n - 7)..n : sandbox_name[i] \in HexChars
    IN IF matches THEN SubSeq(sandbox_name, 4, n - 9) ELSE sandbox_name

\* None
None == <<>>

\* faulty variant: the dirname rules are tried before the identity-prefix rule
_score_match_DirnameFirst(query, sandbox) ==
    LET name == sandbox.name
        query_lower == lower(query)
        name_lower == lower(name)
        dirname_lower == lower(_extract_dirname(name))
    IN IF query_lower = name_lower THEN <<0>>
       ELSE IF query_lower = dirname_lower THEN <<20>>
       ELSE IF StartsWith(dirname_lower, query_lower) THEN <<30>>
       ELSE IF StartsWith(name_lower, query_lower) THEN <<10>>
       ELSE IF Contains(dirname_lower, query_lower) THEN <<40>>
       ELSE IF Contains(name_lower, query_lower) THEN <<50>>
       ELSE None

\* the score of a sandbox for a query, <<score>>, or None when it does not match
_score_match(query, sandbox) ==
    LET name == sandbox.name
        query_lower == lower(query)
        name_lower == lower(name)
        dirname == _extract_dirname(name)
        dirname_lower == lower(dirname)
    IN IF query_lower = name_lower THEN <<0>>
       ELSE IF StartsWith(name_lower, query_lower) THEN <<10>>
       ELSE IF query_lower = dirname_lower THEN <<20>>
       ELSE IF StartsWith(dirname_lower, query_lower) THEN <<30>>
       ELSE IF Contains(dirname_lower, query_lower) THEN <<40>>
       ELSE IF Contains(name_lower, query_lower) THEN <<50>>
       ELSE None

\* the list `scored` the loop builds: (score, sandbox) of every match, in input order
RECURSIVE Scored(_, _)
Scored(query, sandboxes) ==
    IF sandboxes = <<>> THEN <<>>
    ELSE LET score == _score_match(query, Head(sandboxes))
             rest == Scored(query, Tail(sandboxes))
         IN IF score # None THEN <<<<score[1], Head(sandboxes)>>>> \o rest ELSE rest

\* faulty variant: an entry goes before the entries of equal score
InsertByScore_BeforeEqual(x, sorted) ==
    LET k == Cardinality({i \in DOMAIN sorted : sorted[i][1] < x[1]})
    IN SubSeq(sorted, 1, k) \o <<x>> \o SubSeq(sorted, k + 1, Len(sorted))

\* one step of a stable sort on x[0]: x goes behind every entry that is not greater
InsertByScore(x, sorted) ==
    LET k == Cardinality({i \in DOMAIN sorted : sorted[i][1] <= x[1]})
    IN SubSeq(sorted, 1, k) \o <<x>> \o SubSeq(sorted, k + 1, Len(sorted))

\* scored.sort(key=lambda x: x[0]); list.sort is stable
RECURSIVE SortByScore(_)
SortByScore(scored) ==
    IF scored = <<>> THEN <<>>
    ELSE InsertByScore(scored[Len(scored)], SortByScore(SubSeq(scored, 1, Len(scored) - 1)))

\* faulty variant: the matches are returned unsorted
find_matching_sandboxes_Unsorted(query, sandboxes) ==
    LET scored == Scored(query, sandboxes)
    IN IF scored # <<>> /\ \E i \in DOMAIN scored : scored[i][1] = 0
       THEN <<scored[CHOOSE i \in DOMAIN scored : scored[i][1] = 0][2]>>
       ELSE [i \in 1..Len(scored) |-> scored[i][2]]

\* faulty variant: an exact match does not end the search
find_matching_sandboxes_NoShortCircuit(query, sandboxes) ==
    LET scored == SortByScore(Scored(query, sandboxes))
    IN [i \in 1..Len(scored) |-> scored[i][2]]

find_matching_sandboxes(query, sandboxes) ==
    LET scored == SortByScore(Scored(query, sandboxes))
    IN IF scored # <<>> /\ scored[1][1] = 0 THEN <<scored[1][2]>>
       ELSE [i \in 1..Len(scored) |-> scored[i][2]]

(***************************************************************************)

(* Sensitive directories                                                   *)
(***************************************************************************)
SENSITIVE_DIRS ==
    {<<"/">>, HomeDir, <<"/", "e", "t", "c">>, <<"/", "v", "a", "r">>,
     <<"/", "u", "s", "r">>, <<"/", "b", "i", "n">>, <<"/", "s", "b", "i", "n">>}

\* SandboxManager.custom_sensitive_dirs, fixed at construction
custom_sensitive_dirs == {<<"~", "/", "k">>}

\* line 236: expanded_sensitive, for every entry of all_sensitive
ExpandedSensitive ==
    {abspath(expanduser(d)) : d \in SENSITIVE_DIRS \cup custom_sensitive_dirs}

\* TRUE when _check_sensitive_dir returns a warning
_check_sensitive_dir(path) ==
    LET abs_path == abspath(expanduser(path))
    IN \E expanded_sensitive \in ExpandedSensitive : abs_path = expanded_sensitive

(***************************************************************************)
(* The host: files, directories, os.environ                                *)
(***************************************************************************)
\* SHELL_CONFIG_DIR = Path.home() / ".config" / "sb"
SHELL_CONFIG_DIR == HomeDir \o <<"/", ".", "c", "o", "n", "f", "i", "g", "/", "s", "b">>

\* the directories every host has; host.dirs and host.files hold what else exists
BaseDirs ==
    {<<"/">>, HomeDir, <<"/", "w">>, Cwd, <<"/", "e", "t", "c">>, HomeDir \o <<"/", ".", "c", "o", "n", "f", "i", "g">>, SHELL_CONFIG_DIR}

\* os.path.exists, for the normalized absolute path `abs_path`; as_dir: the
\* path was written with a trailing "/", which only a directory satisfies
ExistsAbs(h, abs_path, as_dir) ==
    \/ abs_path \in BaseDirs \cup h.dirs
    \/ abs_path \in h.files /\ ~as_dir

exists(h, path) == ExistsAbs(h, abspath(path), path[Len(path)] = "/")

\* Path / name
PathJoin(dir, name) == dir \o <<"/">> \o name

\* the files _ensure_shell_configs copies when the package ships them
ShellFiles == {<<"z", "s", "h", "r", "c">>, <<"s", "t", "a", "r", "s", "h", "i", "p", ".", "t", "o", "m", "l">>}
ShellDirs == {<<"n", "v", "i", "m">>}

\* _ensure_shell_configs: ~/.config/sb is there (BaseDirs), so mkdir changes
\* nothing; the shipped defaults that are missing are copied
_ensure_shell_configs(h) ==
    LET missing(names) ==
            {PathJoin(SHELL_CONFIG_DIR, n) :
                n \in {m \in names \cap h.shipped :
                          PathJoin(SHELL_CONFIG_DIR, m) \notin h.files \cup h.dirs}}
    IN IF h.shipped = {} THEN h
       ELSE [h EXCEPT !.dirs = @ \cup missing(ShellDirs),
                      !.files = @ \cup missing(ShellFiles)]

(***************************************************************************)
(* _build_mounts                                                           *)
(***************************************************************************)
DEFAULT_MOUNTS ==
    <<[host_path |-> <<"~", "/", ".", "c", "l", "a", "u", "d", "e", "/">>,
       container_path |-> <<"/", "h", "o", "m", "e", "/", "s", "a", "n", "d", "b", "o", "x", "/", ".", "c", "l", "a", "u", "d", "e", "/">>,
       mode |-> "rw"],
      [host_path |-> <<"~", "/", ".", "c", "l", "a", "u", "d", "e", ".", "j", "s", "o", "n">>,
       container_path |-> <<"/", "h", "o", "m", "e", "/", "s", "a", "n", "d", "b", "o", "x", "/", ".", "c", "l", "a", "u", "d", "e", ".", "j", "s", "o", "n">>,
       mode |-> "rw"],
      [host_path |-> <<"~", "/", ".", "c", "o", "n", "f", "i", "g", "/", "c", "l", "a", "u", "d", "e", "-", "c", "o", "d", "e", "/">>,
       container_path |-> <<"/", "h", "o", "m", "e", "/", "s", "a", "n", "d", "b", "o", "x", "/", ".", "c", "o", "n", "f", "i", "g", "/", "c", "l", "a", "u", "d", "e", "-", "c", "o", "d", "e", "/">>,
       mode |-> "rw"],
      [host_path |-> <<"~", "/", ".", "c", "o", "d", "e", "x", "/">>,
       container_path |-> <<"/", "h", "o", "m", "e", "/", "s", "a", "n", "d", "b", "o", "x", "/", ".", "c", "o", "d", "e", "x", "/">>,
       mode |-> "rw"],
      [host_path |-> <<"~", "/", ".", "g", "i", "t", "c", "o", "n", "f", "i", "g">>,
       container_path |-> <<"/", "h", "o", "m", "e", "/", "s", "a", "n", "d", "b", "o", "x", "/", ".", "g", "i", "t", "c", "o", "n", "f", "i", "g">>,
       mode |-> "ro"],
      [host_path |-> <<"~", "/", ".", "c", "o", "n", "f", "i", "g", "/", "s", "b", "/", "z", "s", "h", "r", "c">>,
       container_path |-> <<"/", "h", "o", "m", "e", "/", "s", "a", "n", "d", "b", "o", "x", "/", ".", "z", "s", "h", "r", "c">>,
       mode |-> "ro"],
      [host_path |-> <<"~", "/", ".", "c", "o", "n", "f", "i", "g", "/", "s", "b", "/", "s", "t", "a", "r", "s", "h", "i", "p", ".", "t", "o", "m", "l">>,
       container_path |-> <<"/", "h", "o", "m", "e", "/", "s", "a", "n", "d", "b", "o", "x", "/", ".", "c", "o", "n", "f", "i", "g", "/", "s", "t", "a", "r", "s", "h", "i", "p", ".", "t", "o", "m", "l">>,
       mode |-> "ro"],
      [host_path |-> <<"~", "/", ".", "c", "o", "n", "f", "i", "g", "/", "s", "b", "/", "n", "v", "i", "m", "/">>,
       container_path |-> <<"/", "h", "o", "m", "e", "/", "s", "a", "n", "d", "b", "o", "x", "/", ".", "c", "o", "n", "f", "i", "g", "/", "n", "v", "i", "m", "/">>,
       mode |-> "rw"]>>

HomeSandbox == <<"/", "h", "o", "m", "e", "/", "s", "a", "n", "d", "b", "o", "x">>
WorkspaceTarget == HomeSandbox \o <<"/", "w", "o", "r", "k", "s", "p", "a", "c", "e">>

\* docker.types.Mount(target, source, type="bind", read_only)
Mount(target, source, read_only) ==
    [target |-> target, source |-> source, type |-> "bind", read_only |-> read_only]

\* str.replace(old, new) for a one-character `old`: every occurrence is replaced
RECURSIVE Replace(_, _, _)
Replace(s, old, new) ==
    IF s = <<>> THEN <<>>
    ELSE (IF Head(s) = old THEN new ELSE <<Head(s)>>) \o Replace(Tail(s), old, new)

\* per entry of DEFAULT_MOUNTS: os.path.abspath(expanded_host), and whether
\* expanded_host ends with "/"
DefaultSources ==
    [i \in DOMAIN DEFAULT_MOUNTS |->
        LET expanded_host == expanduser(DEFAULT_MOUNTS[i].host_path)
        IN [source |-> abspath(expanded_host),
            as_dir |-> expanded_host[Len(expanded_host)] = "/"]]

\* lines 176-187: the default mounts whose host path exists, from entry i on
RECURSIVE DefaultPart(_, _)
DefaultPart(h, i) ==
    IF i > Len(DEFAULT_MOUNTS) THEN <<>>
    ELSE LET d == DEFAULT_MOUNTS[i]
         IN (IF ExistsAbs(h, DefaultSources[i].source, DefaultSources[i].as_dir)
             THEN <<Mount(d.container_path, DefaultSources[i].source, d.mode = "ro")>>
             ELSE <<>>)
            \o DefaultPart(h, i + 1)

\* lines 189-217: the extra mounts whose host path exists, read-only
RECURSIVE ExtraPart(_, _)
ExtraPart(h, paths) ==
    IF paths = <<>> THEN <<>>
    ELSE LET host_path == Head(paths)
             expanded_host == expanduser(host_path)
             container_path == Replace(host_path, "~", HomeSandbox)
         IN (IF exists(h, expanded_host)
             THEN <<Mount(container_path, abspath(expanded_host), TRUE)>>
             ELSE <<>>)
            \o ExtraPart(h, Tail(paths))

\* faulty variant: the ad-hoc mounts come before the manager's
_build_mounts_CliFirst(h, extra_mounts, workspace, extra_cli_mounts) ==
    <<Mount(WorkspaceTarget, abspath(expanduser(workspace)), FALSE)>>
        \o DefaultPart(h, 1)
        \o ExtraPart(h, extra_cli_mounts)
        \o ExtraPart(h, extra_mounts)

\* on host h, for a manager whose extra_mounts field is `extra_mounts`
_build_mounts(h, extra_mounts, workspace, extra_cli_mounts) ==
    <<Mount(WorkspaceTarget, abspath(expanduser(workspace)), FALSE)>>
        \o DefaultPart(h, 1)
        \o ExtraPart(h, extra_mounts)
        \o ExtraPart(h, extra_cli_mounts)

(***************************************************************************)
(* The container's environment (create, lines 405-423)                     *)
(***************************************************************************)
DigitChars == <<"0", "1", "2", "3", "4", "5", "6", "7", "8", "9">>

\* str(n) for a natural number
RECURSIVE str(_)
str(n) ==
    IF n < 10 THEN <<DigitChars[n + 1]>>
    ELSE str(n \div 10) \o <<DigitChars[(n % 10) + 1]>>

HOST_UID == <<"H", "O", "S", "T", "_", "U", "I", "D">>
HOST_GID == <<"H", "O", "S", "T", "_", "G", "I", "D">>
NoEnvironment == [k \in {} |-> <<>>]

\* the position of the first `ch` in s, 0 when there is none
IndexOf(s, ch) ==
    IF \E i \in DOMAIN s : s[i] = ch
    THEN CHOOSE i \in DOMAIN s : s[i] = ch /\ \A j \in 1..(i - 1) : s[j] # ch
    ELSE 0

\* environment[key] = value
DictSet(d, key, value) ==
    [k \in DOMAIN d \cup {key} |-> IF k = key THEN value ELSE d[k]]

\* lines 413-423: the loop over all_env_vars
RECURSIVE ApplyEnv(_, _, _)
ApplyEnv(h, all_env_vars, environment) ==
    IF all_env_vars = <<>> THEN environment
    ELSE LET env_var == Head(all_env_vars)
             eq == IndexOf(env_var, "=")
         IN ApplyEnv(h, Tail(all_env_vars),
                IF eq # 0
                THEN DictSet(environment, SubSeq(env_var, 1, eq - 1),
                             SubSeq(env_var, eq + 1, Len(env_var)))
                ELSE IF env_var \in DOMAIN h.environ /\ h.environ[env_var] # <<>>
                THEN DictSet(environment, env_var, h.environ[env_var])
                ELSE environment)

\* lines 405-412, then the loop
BuildEnvironment(h, env_passthrough, env_vars) ==
    ApplyEnv(h, env_passthrough \o env_vars,
             (HOST_UID :> str(h.uid)) @@ (HOST_GID :> str(h.gid)))

\* a host that has none of the default mounts and an empty os.environ
PlainHost ==
    [dirs |-> {}, files |-> {}, shipped |-> {}, environ |-> NoEnvironment,
     uid |-> 1000, gid |-> 100]

\* SandboxManager() as cli.py constructs it
PlainManager == [extra_mounts |-> <<>>, env_passthrough |-> <<>>]

(***************************************************************************)
(* Calls                                                                   *)
(***************************************************************************)
NoName == <<>>                        \* name=None (or the empty string)
NameX == <<"x">>                      \* an explicit --name
WsDot == <<".">>                      \* the current directory, /w/a
WsHome == <<"~">>                     \* the home directory, /u

NoCall == [op |-> "none", name |-> NoName, workspace |-> WsDot,
           force |-> FALSE, cb |-> FALSE, extra_mounts |-> <<>>, env_vars |-> <<>>,
           again |-> FALSE, query |-> <<>>]

\* no function is applied on its own
NoApp == [fn |-> "none", arg |-> <<>>, val |-> <<>>]

NoLoc == [sandbox |-> <<>>, container |-> <<>>, mounts |-> <<>>,
         environment |-> NoEnvironment, sandboxes |-> <<>>, rich |-> FALSE,
         rows |-> <<>>]

\* (force, confirm_callback given)
Modes == BOOLEAN \X BOOLEAN

MkCall(op, name, workspace, mode) ==
    [op |-> op, name |-> name, workspace |-> workspace,
     force |-> mode[1], cb |-> mode[2],
     extra_mounts |-> <<>>, env_vars |-> <<>>,
     again |-> FALSE,                 \* history: the call repeats the one before it
     query |-> <<>>]                  \* the NAME argument of the command line, if resolved

\* what a call names: an explicit name, or a workspace
Targets == {<<NameX, WsDot>>, <<NoName, WsDot>>, <<NoName, WsHome>>}

CreateCalls == {MkCall("create", t[1], t[2], m) : t \in Targets, m \in Modes}
AttachCalls == {MkCall("attach", t[1], t[2], <<FALSE, FALSE>>) : t \in Targets}
StopCalls == {MkCall("stop", t[1], t[2], <<FALSE, FALSE>>) : t \in Targets}
DestroyCalls == {MkCall("destroy", t[1], t[2], m) : t \in Targets, m \in Modes}

Calls == CreateCalls \cup AttachCalls \cup StopCalls \cup DestroyCalls

FirstPc(op) ==
    CASE op = "create" -> "c_check"
      [] op = "attach" -> "a_resolve"
      [] op = "stop" -> "s_resolve"
      [] op = "destroy" -> "d_resolve"
      [] op = "list" -> "l_list"

\* the identity a call is about: sandbox_name of create, the name looked up otherwise
TargetName(c) ==
    IF c.name # NoName THEN c.name
    ELSE generate_name(abspath(expanduser(c.workspace)))

Set(f, p, v) == [f EXCEPT ![p] = v]

\* the call of p ends: by raising `res`, or with "ok" and the value `value`
Finish(p, res, value) ==
    /\ pc' = Set(pc, p, "done")
    /\ result' = Set(result, p, res)
    /\ ret' = Set(ret, p, value)

Goto(p, label) ==
    /\ pc' = Set(pc, p, label)
    /\ UNCHANGED <<result, ret>>

Logged(p, op, id, ok) == Set(log, p, Append(log[p], [op |-> op, id |-> id, ok |-> ok]))

Asked(p, kind, answer) ==
    Set(prompts, p, Append(prompts[p], [kind |-> kind, answer |-> answer]))

(***************************************************************************)
(* A call begins and returns                                               *)
(***************************************************************************)
Free(p) == pc[p] \in {"idle", "done"}

\* a new call, one of `calls`, takes the first free process; what the previous
\* call left is cleared
BeginFrom(p, calls, limit) ==
    /\ Free(p)
    /\ \A q \in Procs : q < p => ~Free(q)
    /\ ncalls < limit
    /\ \E c \in calls :
          /\ call' = Set(call, p, c)
          /\ pc' = Set(pc, p, FirstPc(c.op))
    /\ ncalls' = ncalls + 1
    /\ pre' = Set(pre, p, containers)
    /\ loc' = Set(loc, p, NoLoc)
    /\ log' = Set(log, p, <<>>)
    /\ prompts' = Set(prompts, p, <<>>)
    /\ result' = Set(result, p, "none")
    /\ ret' = Set(ret, p, <<>>)
    /\ UNCHANGED <<containers, nextId, host, mgr, app>>

BeginCall(p, limit) == BeginFrom(p, Calls, limit)

(***************************************************************************)
(* The confirm-or-force gates                                              *)
(***************************************************************************)
\* faulty variant: the callback's answer is not looked at
RecreateGate_IgnoresAnswer(force, cb, answer) ==
    IF force THEN [asked |-> FALSE, outcome |-> "proceed"]
    ELSE IF cb THEN [asked |-> TRUE, outcome |-> "proceed"]
    ELSE [asked |-> FALSE, outcome |-> "AlreadyExists"]

\* faulty variant: without a callback the recreation goes ahead
RecreateGate_NoCallbackProceeds(force, cb, answer) ==
    IF force THEN [asked |-> FALSE, outcome |-> "proceed"]
    ELSE IF cb THEN [asked |-> TRUE,
                     outcome |-> IF answer THEN "proceed" ELSE "UserCancelled"]
    ELSE [asked |-> FALSE, outcome |-> "proceed"]

\* create, "already exists" branch: is confirm_callback invoked, and what follows
RecreateGate(force, cb, answer) ==
    IF force THEN [asked |-> FALSE, outcome |-> "proceed"]
    ELSE IF cb THEN [asked |-> TRUE,
                     outcome |-> IF answer THEN "proceed" ELSE "UserCancelled"]
    ELSE [asked |-> FALSE, outcome |-> "AlreadyExists"]

\* faulty variant: without a callback the sensitive workspace is accepted
SensitiveGate_NoCallbackProceeds(warning, force, cb, answer) ==
    IF warning /\ ~force /\ cb
    THEN [asked |-> TRUE, outcome |-> IF answer THEN "proceed" ELSE "UserCancelled"]
    ELSE [asked |-> FALSE, outcome |-> "proceed"]

\* faulty variant: "if warning:" without "and not force"
SensitiveGate_IgnoresForce(warning, force, cb, answer) ==
    IF warning
    THEN IF cb THEN [asked |-> TRUE,
                     outcome |-> IF answer THEN "proceed" ELSE "UserCancelled"]
         ELSE [asked |-> FALSE, outcome |-> "SensitiveDirectoryDeclined"]
    ELSE [asked |-> FALSE, outcome |-> "proceed"]

\* create, sensitive-directory check
SensitiveGate(warning, force, cb, answer) ==
    IF warning /\ ~force
    THEN IF cb THEN [asked |-> TRUE,
                     outcome |-> IF answer THEN "proceed" ELSE "UserCancelled"]
         ELSE [asked |-> FALSE, outcome |-> "SensitiveDirectoryDeclined"]
    ELSE [asked |-> FALSE, outcome |-> "proceed"]

\* faulty variant: without a callback the destruction goes ahead
DestroyGate_NoCallbackProceeds(force, cb, answer) ==
    IF ~force /\ cb
    THEN [asked |-> TRUE, outcome |-> IF answer THEN "proceed" ELSE "UserCancelled"]
    ELSE [asked |-> FALSE, outcome |-> "proceed"]

\* destroy
DestroyGate(force, cb, answer) ==
    IF ~force
    THEN IF cb THEN [asked |-> TRUE,
                     outcome |-> IF answer THEN "proceed" ELSE "UserCancelled"]
         ELSE [asked |-> FALSE, outcome |-> "ConfirmationRequired"]
    ELSE [asked |-> FALSE, outcome |-> "proceed"]

\* the answers confirm_callback may give where it is invoked
Answers(asked) == IF asked THEN BOOLEAN ELSE {FALSE}

(***************************************************************************)
(* Requests to the daemon                                                  *)
(***************************************************************************)
\* faulty variant: the stop reaches every running container of the host
RuntimeStop_All(cs, id) ==
    {IF c.status = "running" THEN [c EXCEPT !.status = "exited"] ELSE c : c \in cs}

\* container.stop(): a container that is not running stays as it is
RuntimeStop(cs, id) ==
    {IF c.id = id /\ c.status = "running" THEN [c EXCEPT !.status = "exited"] ELSE c
        : c \in cs}

\* container.start()
RuntimeStart(cs, id) == WithStatus(cs, id, "running")

\* faulty variant: remove() is sent to nothing, the container stays
RuntimeRemove_Keeps(cs, id) == cs

\* container.remove()
RuntimeRemove(cs, id) == Without(cs, id)

\* faulty variant: client.containers.run in place of create, the container starts at once
RuntimeCreate_Started(cs, id, sandbox_name, workspace) ==
    cs \cup {[NewContainer(id, sandbox_name, workspace) EXCEPT !.status = "running"]}

\* client.containers.create(name=sandbox_name, labels=labels, ...)
RuntimeCreate(cs, id, sandbox_name, workspace) ==
    cs \cup {NewContainer(id, sandbox_name, workspace)}

\* faulty variant: remove without stopping first
DestroyNext_SkipStop(status) == "x_remove"

\* line 461: _destroy_container stops a running container before removing it
DestroyNext(status) == IF status = "running" THEN "x_stop" ELSE "x_remove"

\* faulty variant: attach never starts the container
NeedsStart_Never(status) == FALSE

\* line 524: attach starts a container that is not running
NeedsStart(status) == status # "running"

\* faulty variant: stop never stops the container
NeedsStop_Never(status) == FALSE

\* line 618: stop stops a running container
NeedsStop(status) == status = "running"

(***************************************************************************)
(* create                                                                  *)
(***************************************************************************)
CreateWorkspace(c) == abspath(expanduser(c.workspace))

CreateName(c) ==
    IF c.name # NoName THEN c.name ELSE generate_name(CreateWorkspace(c))

\* lines 357-374: look the name up, and decide about the existing sandbox
CreateCheck(p) ==
    /\ pc[p] = "c_check"
    /\ LET c == call[p]
           existing == get_sandbox(CreateName(c))
       IN IF existing = <<>>
          THEN /\ Goto(p, "c_make")
               /\ UNCHANGED <<loc, prompts>>
          ELSE \E answer \in Answers(RecreateGate(c.force, c.cb, FALSE).asked) :
                  LET gate == RecreateGate(c.force, c.cb, answer)
                  IN /\ prompts' = IF gate.asked THEN Asked(p, "recreate", answer)
                                   ELSE prompts
                     /\ IF gate.outcome = "proceed"
                        THEN /\ Goto(p, "x_get")
                             /\ loc' = Set(loc, p, [loc[p] EXCEPT !.sandbox = existing])
                        ELSE /\ Finish(p, gate.outcome, <<>>)
                             /\ UNCHANGED loc
    /\ UNCHANGED <<containers, nextId, ncalls, call, log, pre, host, mgr, app>>

\* lines 376-447: sensitive-directory gate, shell configs, image, mounts,
\* environment, container creation; the daemon refuses a bind mount whose
\* source does not exist
CreateMake(p) ==
    /\ pc[p] = "c_make"
    /\ LET c == call[p]
           workspace == CreateWorkspace(c)
           sandbox_name == CreateName(c)
           warning == _check_sensitive_dir(workspace)
           ensured == _ensure_shell_configs(host)
           mounts == _build_mounts(ensured, mgr.extra_mounts, workspace, c.extra_mounts)
           environment == BuildEnvironment(ensured, mgr.env_passthrough, c.env_vars)
           built == [loc[p] EXCEPT !.mounts = mounts, !.environment = environment]
       IN \E answer \in Answers(SensitiveGate(warning, c.force, c.cb, FALSE).asked),
             image_ok \in BOOLEAN :
             LET gate == SensitiveGate(warning, c.force, c.cb, answer)
             IN /\ prompts' = IF gate.asked THEN Asked(p, "sensitive", answer)
                              ELSE prompts
                /\ IF gate.outcome # "proceed"
                   THEN /\ Finish(p, gate.outcome, <<>>)
                        /\ UNCHANGED <<containers, nextId, log, loc, host>>
                   ELSE IF ~image_ok
                   THEN /\ Finish(p, "ImageUnavailable", <<>>)
                        /\ host' = ensured
                        /\ UNCHANGED <<containers, nextId, log, loc>>
                   ELSE IF \/ GetByName(sandbox_name) # <<>>
                           \/ \E i \in DOMAIN mounts : ~exists(ensured, mounts[i].source)
                   THEN /\ Finish(p, "APIError", <<>>)
                        /\ host' = ensured
                        /\ loc' = Set(loc, p, built)
                        /\ log' = Logged(p, "create", 0, FALSE)
                        /\ UNCHANGED <<containers, nextId>>
                   ELSE /\ containers' =
                              RuntimeCreate(containers, nextId, sandbox_name, workspace)
                        /\ nextId' = nextId + 1
                        /\ host' = ensured
                        /\ loc' = Set(loc, p, built)
                        /\ log' = Logged(p, "create", nextId, TRUE)
                        /\ Finish(p, "ok",
                                  <<_container_to_sandbox_info(
                                      NewContainer(nextId, sandbox_name, workspace))>>)
    /\ UNCHANGED <<ncalls, call, pre, mgr, app>>

(***************************************************************************)
(* _destroy_container, called by create and by destroy                     *)
(***************************************************************************)
\* _destroy_container returns to its caller
AfterDestroy(p) ==
    IF call[p].op = "create"
    THEN Goto(p, "c_make")
    ELSE Finish(p, "ok", loc[p].sandbox)

\* lines 455-461: fetch the container, look at its status
DestroyGet(p) ==
    /\ pc[p] = "x_get"
    /\ LET sandbox == loc[p].sandbox[1]
           got == GetById(sandbox.container_id)
       IN IF sandbox.container_id = 0 \/ got = <<>>
          THEN /\ AfterDestroy(p)
               /\ UNCHANGED loc
          ELSE /\ loc' = Set(loc, p, [loc[p] EXCEPT !.container = got])
               /\ Goto(p, DestroyNext(got[1].status))
    /\ UNCHANGED <<containers, nextId, ncalls, call, log, prompts, pre, host, mgr, app>>

\* line 462: container.stop()
DestroyStop(p) ==
    /\ pc[p] = "x_stop"
    /\ LET id == loc[p].container[1].id
       IN IF GetById(id) = <<>>
          THEN /\ log' = Logged(p, "stop", id, FALSE)
               /\ AfterDestroy(p)
               /\ UNCHANGED containers
          ELSE /\ log' = Logged(p, "stop", id, TRUE)
               /\ containers' = RuntimeStop(containers, id)
               /\ Goto(p, "x_remove")
    /\ UNCHANGED <<nextId, ncalls, call, loc, prompts, pre, host, mgr, app>>

\* line 464: container.remove(); the daemon refuses to remove a running container
DestroyRemove(p) ==
    /\ pc[p] = "x_remove"
    /\ LET id == loc[p].container[1].id
           got == GetById(id)
       IN IF got = <<>>
          THEN /\ log' = Logged(p, "remove", id, FALSE)
               /\ AfterDestroy(p)
               /\ UNCHANGED containers
          ELSE IF got[1].status = "running"
          THEN /\ log' = Logged(p, "remove", id, FALSE)
               /\ Finish(p, "APIError", <<>>)
               /\ UNCHANGED containers
          ELSE /\ log' = Logged(p, "remove", id, TRUE)
               /\ containers' = RuntimeRemove(containers, id)
               /\ AfterDestroy(p)
    /\ UNCHANGED <<nextId, ncalls, call, loc, prompts, pre, host, mgr, app>>

(***************************************************************************)
(* attach, stop, destroy                                                   *)
(***************************************************************************)
\* the resolution shared by attach, stop and destroy: by name, else by workspace
Resolve(c) ==
    IF c.name # NoName THEN get_sandbox(c.name)
    ELSE get_sandbox_for_path(abspath(expanduser(c.workspace)))

\* lines 489-506
AttachResolve(p) ==
    /\ pc[p] = "a_resolve"
    /\ LET sandbox == Resolve(call[p])
       IN IF sandbox = <<>>
          THEN /\ Finish(p, "NotFound", <<>>)
               /\ UNCHANGED loc
          ELSE /\ loc' = Set(loc, p, [loc[p] EXCEPT !.sandbox = sandbox])
               /\ Goto(p, "a_get")
    /\ UNCHANGED <<containers, nextId, ncalls, call, log, prompts, pre, host, mgr, app>>

\* faulty variant: a record without its container is passed over in silence
AttachGet_Silent(p) ==
    /\ pc[p] = "a_get"
    /\ LET sandbox == loc[p].sandbox[1]
           got == GetById(sandbox.container_id)
       IN IF sandbox.container_id = 0 \/ got = <<>>
          THEN /\ Finish(p, "ok", <<>>)
               /\ UNCHANGED loc
          ELSE IF NeedsStart(got[1].status)
          THEN /\ loc' = Set(loc, p, [loc[p] EXCEPT !.container = got])
               /\ Goto(p, "a_start")
          ELSE /\ Finish(p, "ok", got)
               /\ UNCHANGED loc
    /\ UNCHANGED <<containers, nextId, ncalls, call, log, prompts, pre, host, mgr, app>>

\* lines 508-524
AttachGet(p) ==
    /\ pc[p] = "a_get"
    /\ LET sandbox == loc[p].sandbox[1]
           got == GetById(sandbox.container_id)
       IN IF sandbox.container_id = 0 \/ got = <<>>
          THEN /\ Finish(p, "RuntimeUnavailable", <<>>)
               /\ UNCHANGED loc
          ELSE IF NeedsStart(got[1].status)
          THEN /\ loc' = Set(loc, p, [loc[p] EXCEPT !.container = got])
               /\ Goto(p, "a_start")
          ELSE /\ Finish(p, "ok", got)
               /\ UNCHANGED loc
    /\ UNCHANGED <<containers, nextId, ncalls, call, log, prompts, pre, host, mgr, app>>

\* line 525: container.start()
AttachStart(p) ==
    /\ pc[p] = "a_start"
    /\ LET id == loc[p].container[1].id
       IN IF GetById(id) = <<>>
          THEN /\ log' = Logged(p, "start", id, FALSE)
               /\ Finish(p, "DockerNotFound", <<>>)
               /\ UNCHANGED containers
          ELSE /\ log' = Logged(p, "start", id, TRUE)
               /\ containers' = RuntimeStart(containers, id)
               /\ Goto(p, "a_reload")
    /\ UNCHANGED <<nextId, ncalls, call, loc, prompts, pre, host, mgr, app>>

\* lines 527-529: container.reload(), return container
AttachReload(p) ==
    /\ pc[p] = "a_reload"
    /\ LET got == GetById(loc[p].container[1].id)
       IN IF got = <<>>
          THEN Finish(p, "DockerNotFound", <<>>)
          ELSE Finish(p, "ok", got)
    /\ UNCHANGED <<containers, nextId, ncalls, call, loc, log, prompts, pre, host, mgr, app>>

\* lines 583-600
StopResolve(p) ==
    /\ pc[p] = "s_resolve"
    /\ LET sandbox == Resolve(call[p])
       IN IF sandbox = <<>>
          THEN /\ Finish(p, "NotFound", <<>>)
               /\ UNCHANGED loc
          ELSE /\ loc' = Set(loc, p, [loc[p] EXCEPT !.sandbox = sandbox])
               /\ Goto(p, "s_get")
    /\ UNCHANGED <<containers, nextId, ncalls, call, log, prompts, pre, host, mgr, app>>

\* lines 602-618
StopGet(p) ==
    /\ pc[p] = "s_get"
    /\ LET sandbox == loc[p].sandbox[1]
           got == GetById(sandbox.container_id)
       IN IF sandbox.container_id = 0 \/ got = <<>>
          THEN /\ Finish(p, "RuntimeUnavailable", <<>>)
               /\ UNCHANGED loc
          ELSE IF NeedsStop(got[1].status)
          THEN /\ loc' = Set(loc, p, [loc[p] EXCEPT !.container = got])
               /\ Goto(p, "s_stop")
          ELSE /\ Finish(p, "ok", loc[p].sandbox)
               /\ UNCHANGED loc
    /\ UNCHANGED <<containers, nextId, ncalls, call, log, prompts, pre, host, mgr, app>>

\* lines 619-621: container.stop(), return sandbox
StopStop(p) ==
    /\ pc[p] = "s_stop"
    /\ LET id == loc[p].container[1].id
       IN IF GetById(id) = <<>>
          THEN /\ log' = Logged(p, "stop", id, FALSE)
               /\ Finish(p, "DockerNotFound", <<>>)
               /\ UNCHANGED containers
          ELSE /\ log' = Logged(p, "stop", id, TRUE)
               /\ containers' = RuntimeStop(containers, id)
               /\ Finish(p, "ok", loc[p].sandbox)
    /\ UNCHANGED <<nextId, ncalls, call, loc, prompts, pre, host, mgr, app>>

\* lines 648-679: resolve, then confirm unless force
DestroyResolve(p) ==
    /\ pc[p] = "d_resolve"
    /\ LET c == call[p]
           sandbox == Resolve(c)
       IN IF sandbox = <<>>
          THEN /\ Finish(p, "NotFound", <<>>)
               /\ UNCHANGED <<loc, prompts>>
          ELSE \E answer \in Answers(DestroyGate(c.force, c.cb, FALSE).asked) :
                  LET gate == DestroyGate(c.force, c.cb, answer)
                  IN /\ prompts' = IF gate.asked THEN Asked(p, "destroy", answer)
                                   ELSE prompts
                     /\ IF gate.outcome = "proceed"
                        THEN /\ Goto(p, "x_get")
                             /\ loc' = Set(loc, p, [loc[p] EXCEPT !.sandbox = sandbox])
                        ELSE /\ Finish(p, gate.outcome, <<>>)
                             /\ UNCHANGED loc
    /\ UNCHANGED <<containers, nextId, ncalls, call, log, pre, host, mgr, app>>

(***************************************************************************)
(* cli.py: a command resolves its NAME argument, then calls the manager    *)
(***************************************************************************)
\* the orders in which the daemon may answer with the containers cs
Orderings(cs) ==
    {l \in [1..Cardinality(cs) -> cs] : \A i, j \in DOMAIN l : l[i] = l[j] => i = j}

\* faulty variant: the label filter is not passed
_list_sb_containers_Unfiltered(all_containers) ==
    {c \in containers : all_containers \/ c.status = "running"}

\* client.containers.list(all=all_containers, filters={"label": "sb.managed=true"})
_list_sb_containers(all_containers) ==
    {c \in containers : /\ LabelGet(c.labels, "sb.managed", <<>>) = TrueStr
                        /\ all_containers \/ c.status = "running"}

\* list_sandboxes(): the lists it may return, one for each order of the daemon's answer
list_sandboxes ==
    {[i \in DOMAIN l |-> _container_to_sandbox_info(l[i])] :
        l \in Orderings(_list_sb_containers(TRUE))}

\* manager.find_sandboxes(query): the matcher on all managed sandboxes
find_sandboxes(query) ==
    {find_matching_sandboxes(query, sandboxes) : sandboxes \in list_sandboxes}

\* the lines of the ambiguity message: every match with its workspace
MatchLines(matches) ==
    [i \in DOMAIN matches |-> <<matches[i].name, matches[i].workspace>>]

\* faulty variant: the best match is taken when its score is the lowest alone
_resolve_sandbox_by_name_BestWins(query, matches) ==
    IF matches = <<>>
    THEN [raised |-> "NotFound", sandbox |-> <<>>, lines |-> <<>>]
    ELSE IF \/ Len(matches) = 1
            \/ _score_match(query, matches[1])[1] < _score_match(query, matches[2])[1]
    THEN [raised |-> "none", sandbox |-> <<matches[1]>>, lines |-> <<>>]
    ELSE [raised |-> "AmbiguousMatch", sandbox |-> <<>>, lines |-> MatchLines(matches)]

\* _resolve_sandbox_by_name, given what find_sandboxes returned: the sandbox, or
\* the ValueError raised ("not found", or "Multiple sandboxes match" and its lines)
_resolve_sandbox_by_name(query, matches) ==
    IF matches = <<>>
    THEN [raised |-> "NotFound", sandbox |-> <<>>, lines |-> <<>>]
    ELSE IF Len(matches) = 1
    THEN [raised |-> "none", sandbox |-> <<matches[1]>>, lines |-> <<>>]
    ELSE [raised |-> "AmbiguousMatch", sandbox |-> <<>>, lines |-> MatchLines(matches)]

\* attach, stop, destroy with a NAME: resolve, then manager.<op>(name=resolved.name)
CliResolve(p) ==
    /\ pc[p] = "cli_resolve"
    /\ \E matches \in find_sandboxes(call[p].query) :
          LET resolved == _resolve_sandbox_by_name(call[p].query, matches)
          IN IF resolved.raised # "none"
             THEN /\ Finish(p, resolved.raised, <<resolved.lines>>)
                  /\ UNCHANGED call
             ELSE /\ call' = Set(call, p, [call[p] EXCEPT !.name = resolved.sandbox[1].name])
                  /\ Goto(p, FirstPc(call[p].op))
    /\ UNCHANGED <<containers, nextId, ncalls, loc, log, prompts, pre, host, mgr, app>>

\* get_container_status: the status the daemon reports, as it reports it
get_container_status(sandbox) ==
    IF sandbox.container_id = 0 THEN "unknown"
    ELSE LET got == GetById(sandbox.container_id)
         IN IF got = <<>> THEN "unknown" ELSE got[1].status

\* the status column of _print_sandboxes_rich and of _print_sandboxes_simple
StatusRich(status) ==
    IF status = "running" THEN "running"
    ELSE IF status = "exited" \/ status = "stopped" THEN "stopped"
    ELSE "unknown"

StatusSimple(status) == IF status = "exited" THEN "stopped" ELSE status

\* list_cmd: list the sandboxes; the table is printed with rich when it is installed
ListSandboxes(p) ==
    /\ pc[p] = "l_list"
    /\ \E sandboxes \in list_sandboxes, rich \in BOOLEAN :
          IF sandboxes = <<>>
          THEN /\ Finish(p, "ok", <<>>)
               /\ UNCHANGED loc
          ELSE /\ loc' = Set(loc, p, [loc[p] EXCEPT !.sandboxes = sandboxes, !.rich = rich])
               /\ Goto(p, "l_status")
    /\ UNCHANGED <<containers, nextId, ncalls, call, log, prompts, pre, host, mgr, app>>

\* one row of the table: manager.get_container_status(sandbox), then the column shown
ListStatus(p) ==
    /\ pc[p] = "l_status"
    /\ LET i == Len(loc[p].rows) + 1
           sandbox == loc[p].sandboxes[i]
           status == get_container_status(sandbox)
           row == [sandbox |-> sandbox, status |-> status,
                   shown |-> IF loc[p].rich THEN StatusRich(status)
                             ELSE StatusSimple(status)]
           rows == Append(loc[p].rows, row)
       IN /\ loc' = Set(loc, p, [loc[p] EXCEPT !.rows = rows])
          /\ IF i = Len(loc[p].sandboxes) THEN Finish(p, "ok", <<rows>>)
             ELSE Goto(p, "l_status")
    /\ UNCHANGED <<containers, nextId, ncalls, call, log, prompts, pre, host, mgr, app>>

(***************************************************************************)

(* Specifications                                                          *)
(***************************************************************************)
NameA == generate_name(Cwd)           \* the identity of workspace /w/a

ManagedA(status) ==
    [id |-> 1, name |-> NameA, status |-> status, labels |-> CreateLabels(NameA, Cwd)]

\* a container of the same host that sb did not create
UnmanagedX == [id |-> 2, name |-> NameX, status |-> "running", labels |-> NoLabels]

\* what the daemon may hold when the first call arrives
InitContainers ==
    {{}, {ManagedA("running")}, {ManagedA("exited")}, {UnmanagedX},
     {ManagedA("running"), UnmanagedX}}

Init ==
    /\ containers \in InitContainers
    /\ nextId = 3
    /\ ncalls = 0
    /\ pc = [p \in Procs |-> "idle"]
    /\ call = [p \in Procs |-> NoCall]
    /\ loc = [p \in Procs |-> NoLoc]
    /\ log = [p \in Procs |-> <<>>]
    /\ prompts = [p \in Procs |-> <<>>]
    /\ result = [p \in Procs |-> "none"]
    /\ ret = [p \in Procs |-> <<>>]
    /\ pre = [p \in Procs |-> {}]
    /\ host = PlainHost
    /\ mgr = PlainManager
    /\ app = NoApp

Step(p) ==
    \/ CreateCheck(p)
    \/ CreateMake(p)
    \/ DestroyGet(p)
    \/ DestroyStop(p)
    \/ DestroyRemove(p)
    \/ AttachResolve(p)
    \/ AttachGet(p)
    \/ AttachStart(p)
    \/ AttachReload(p)
    \/ StopResolve(p)
    \/ StopGet(p)
    \/ StopStop(p)
    \/ DestroyResolve(p)

\* calls of separate sb processes interleave request by request
Begin(p) == BeginCall(p, MaxCalls)

Next == \E p \in Procs : Begin(p) \/ Step(p)

Spec == Init /\ [][Next]_vars

\* one call at a time: a call begins when no other is in progress
BeginSeq(p) ==
    /\ \A q \in Procs : Free(q)
    /\ BeginCall(p, MaxSeqCalls)

NextSeq == \E p \in Procs : BeginSeq(p) \/ Step(p)

SeqSpec == Init /\ [][NextSeq]_vars

\* the caller invokes attach, stop or destroy a second time, with the same arguments
\* and nothing in between; `prompts` keeps the answers of the first invocation
BeginAgain(p) ==
    /\ \A q \in Procs : Free(q)
    /\ pc[p] = "done"
    /\ call[p].op \in {"attach", "stop", "destroy"}
    /\ ~call[p].again
    /\ ncalls < MaxSeqCalls
    /\ call' = Set(call, p, [call[p] EXCEPT !.again = TRUE])
    /\ pc' = Set(pc, p, FirstPc(call[p].op))
    /\ ncalls' = ncalls + 1
    /\ pre' = Set(pre, p, containers)
    /\ loc' = Set(loc, p, NoLoc)
    /\ log' = Set(log, p, <<>>)
    /\ result' = Set(result, p, "none")
    /\ ret' = Set(ret, p, <<>>)
    /\ UNCHANGED <<containers, nextId, prompts, host, mgr, app>>

NextTwice == \E p \in Procs : BeginSeq(p) \/ BeginAgain(p) \/ Step(p)

TwiceSpec == Init /\ [][NextTwice]_vars

(***************************************************************************)
(* create with extra mounts, on a daemon without containers                *)
(***************************************************************************)
MountHomeD == <<"~", "/", "d">>                 \* a directory under the home
MountEtc == <<"/", "e", "t", "c">>               \* a sensitive directory
MountMissing == <<"/", "n", "x">>           \* no such path
WsMissing == MountMissing

MountPaths == {MountHomeD, MountEtc, MountMissing}

\* the lists of at most n elements of S
ListsOf(S, n) == UNION {[1..k -> S] : k \in 0..n}

\* config.py: the "~" of every path is expanded when the configuration is loaded
_expand_paths(paths) == [i \in DOMAIN paths |-> expanduser(paths[i])]

\* extra_mounts as given to SandboxManager(...), or as load_config returns them
MountManagers ==
    {[extra_mounts |-> l, env_passthrough |-> <<>>] :
        l \in ListsOf(MountPaths, MaxMounts)
              \cup {_expand_paths(m) : m \in ListsOf(MountPaths, MaxMounts)}}

\* some default mounts exist: ~/.claude/ and ~/.gitconfig; ~/.codex is a file, so
\* "~/.codex/" does not exist; the package ships a zshrc
MountHost ==
    [dirs |-> {HomeDir \o <<"/", "d">>, HomeDir \o <<"/", ".", "c", "l", "a", "u", "d", "e">>},
     files |-> {HomeDir \o <<"/", ".", "g", "i", "t", "c", "o", "n", "f", "i", "g">>, HomeDir \o <<"/", ".", "c", "o", "d", "e", "x">>},
     shipped |-> {<<"z", "s", "h", "r", "c">>}, environ |-> NoEnvironment,
     uid |-> 1000, gid |-> 100]

MountCalls ==
    {[MkCall("create", NoName, ws, <<force, TRUE>>) EXCEPT !.extra_mounts = l] :
        ws \in {WsDot, WsHome, WsMissing}, force \in BOOLEAN,
        l \in ListsOf(MountPaths, MaxMounts)}

InitMount ==
    /\ containers = {}
    /\ nextId = 3
    /\ ncalls = 0
    /\ pc = [p \in Procs |-> "idle"]
    /\ call = [p \in Procs |-> NoCall]
    /\ loc = [p \in Procs |-> NoLoc]
    /\ log = [p \in Procs |-> <<>>]
    /\ prompts = [p \in Procs |-> <<>>]
    /\ result = [p \in Procs |-> "none"]
    /\ ret = [p \in Procs |-> <<>>]
    /\ pre = [p \in Procs |-> {}]
    /\ host = MountHost
    /\ mgr \in MountManagers
    /\ app = NoApp

\* the one call of the behaviour
BeginMount(p) == BeginFrom(p, MountCalls, 1)

NextMount == \E p \in Procs : BeginMount(p) \/ CreateCheck(p) \/ CreateMake(p)

MountSpec == InitMount /\ [][NextMount]_vars

(***************************************************************************)
(* create with environment entries, on a daemon without containers         *)
(***************************************************************************)
EnvK == <<"K">>                        \* set to "h" in os.environ
EnvE == <<"E">>                        \* set to the empty string in os.environ
EnvN == <<"N">>                        \* not set in os.environ

\* what --env and env_passthrough may hold: names, and KEY=value entries
EnvEntries == {EnvK, EnvE, EnvN, <<"K", "=", "a", "=", "b">>,
               <<"H", "O", "S", "T", "_", "U", "I", "D", "=", "0">>}

EnvHost ==
    [PlainHost EXCEPT !.environ = (EnvK :> <<"h">>) @@ (EnvE :> <<>>)]

EnvManagers ==
    {[extra_mounts |-> <<>>, env_passthrough |-> l] : l \in ListsOf(EnvEntries, MaxEnv)}

EnvCalls ==
    {[MkCall("create", NoName, WsDot, <<FALSE, TRUE>>) EXCEPT !.env_vars = l] :
        l \in ListsOf(EnvEntries, MaxEnv)}

InitEnv ==
    /\ containers = {}
    /\ nextId = 3
    /\ ncalls = 0
    /\ pc = [p \in Procs |-> "idle"]
    /\ call = [p \in Procs |-> NoCall]
    /\ loc = [p \in Procs |-> NoLoc]
    /\ log = [p \in Procs |-> <<>>]
    /\ prompts = [p \in Procs |-> <<>>]
    /\ result = [p \in Procs |-> "none"]
    /\ ret = [p \in Procs |-> <<>>]
    /\ pre = [p \in Procs |-> {}]
    /\ host = EnvHost
    /\ mgr \in EnvManagers
    /\ app = NoApp

\* the one call of the behaviour
BeginEnv(p) == BeginFrom(p, EnvCalls, 1)

NextEnv == \E p \in Procs : BeginEnv(p) \/ CreateCheck(p) \/ CreateMake(p)

EnvSpec == InitEnv /\ [][NextEnv]_vars

(***************************************************************************)
(* The functions of matching.py applied on their own (MatchSpec)           *)
(***************************************************************************)
MaxCandidates == 3  \* length of the list of sandboxes given to the matcher

SandboxInfo(name, workspace, container_id) ==
    [name |-> name, workspace |-> workspace, container_id |-> container_id]

\* sandboxes of generated and of explicit names
MatchPool ==
    {SandboxInfo(<<"s", "b", "-", "f", "o", "o", "-", "a", "a", "a", "a", "1", "1", "1", "1">>, <<"/", "w", "/", "f", "o", "o">>, 1),
     SandboxInfo(<<"s", "b", "-", "f", "o", "o", "b", "a", "r", "-", "b", "b", "b", "b", "2", "2", "2", "2">>, <<"/", "w", "/", "f", "o", "o", "b", "a", "r">>, 2),
     SandboxInfo(<<"f", "o", "o", "b", "a", "r">>, <<"/", "w", "/", "x">>, 3),
     SandboxInfo(<<"F", "o", "o">>, <<"/", "w", "/", "y">>, 4),
     SandboxInfo(<<"f", "o", "o">>, <<"/", "w", "/", "z">>, 5),
     SandboxInfo(<<"s", "b", "-", "a", "-", "f", "o", "o", "-", "c", "c", "c", "c", "3", "3", "3", "3">>, <<"/", "w", "/", "a", " ", "f", "o", "o">>, 6)}

MatchQueries ==
    {<<"f", "o", "o">>, <<"F", "O", "O">>, <<"f", "o">>, <<"s", "b", "-", "f", "o", "o">>, <<"o", "b", "a">>, <<"a", "a", "a", "a", "1">>, <<"f", "o", "o", "b", "a", "r">>,
     <<"s", "b", "-", "f", "o", "o", "-", "a", "a", "a", "a", "1", "1", "1", "1">>, <<"z", "z", "z">>, <<>>}

\* the lists of at most n elements of S, no element twice
DistinctListsOf(S, n) ==
    {l \in ListsOf(S, n) : \A i, j \in DOMAIN l : l[i] = l[j] => i = j}

MatchInputs ==
    [query : MatchQueries, sandboxes : DistinctListsOf(MatchPool, MaxCandidates)]

\* no manager call is made: the daemon is empty and every process idle
AtRest ==
    /\ containers = {}
    /\ nextId = 1
    /\ ncalls = 0
    /\ pc = [p \in Procs |-> "idle"]
    /\ call = [p \in Procs |-> NoCall]
    /\ loc = [p \in Procs |-> NoLoc]
    /\ log = [p \in Procs |-> <<>>]
    /\ prompts = [p \in Procs |-> <<>>]
    /\ result = [p \in Procs |-> "none"]
    /\ ret = [p \in Procs |-> <<>>]
    /\ pre = [p \in Procs |-> {}]
    /\ host = PlainHost
    /\ mgr = PlainManager

managerVars == <<containers, nextId, ncalls, pc, call, loc, log, prompts, result, ret, pre,
          host, mgr>>

InitMatch ==
    /\ AtRest
    /\ \E input \in MatchInputs : app = [fn |-> "none", arg |-> input, val |-> <<>>]

\* _score_match(query, sandbox) on one sandbox of the list
ScoreMatch ==
    /\ app.fn = "none"
    /\ \E i \in DOMAIN app.arg.sandboxes :
          LET sandbox == app.arg.sandboxes[i]
          IN app' = [fn |-> "_score_match",
                     arg |-> [query |-> app.arg.query, sandbox |-> sandbox],
                     val |-> <<_score_match(app.arg.query, sandbox)>>]
    /\ UNCHANGED managerVars

\* find_matching_sandboxes(query, sandboxes)
FindMatching ==
    /\ app.fn = "none"
    /\ app' = [app EXCEPT !.fn = "find_matching_sandboxes",
                          !.val = <<find_matching_sandboxes(app.arg.query,
                                                            app.arg.sandboxes)>>]
    /\ UNCHANGED managerVars

NextMatch == ScoreMatch \/ FindMatching

MatchSpec == InitMatch /\ [][NextMatch]_vars

(***************************************************************************)

(* Commands with a NAME argument, and list (CliSpec)                       *)
(***************************************************************************)
MaxCliCalls == 1    \* commands per behaviour (CliSpec)

\* the containers a host may hold: sb-a-0a1b2c3d of /w/a and x, which sb did not
\* create; sb-ab-ffffffff of /w/ab, stopped since; and what `sb create --name a`
\* and `sb create --name A` left in /w/c and /w/d, the first never started
CliPool ==
    LET managed(id, name, workspace, status) ==
            [id |-> id, name |-> name, status |-> status,
             labels |-> CreateLabels(name, workspace)]
        ab == <<"/", "w", "/", "a", "b">>
    IN {ManagedA("running"), UnmanagedX,
        managed(3, generate_name(ab), ab, "exited"),
        managed(4, <<"a">>, <<"/", "w", "/", "c">>, "created"),
        managed(5, <<"A">>, <<"/", "w", "/", "d">>, "running")}

CliQueries ==
    {<<"a">>, <<"A">>, <<"a", "b">>, <<"s", "b", "-", "a">>, <<"0", "a", "1", "b">>, <<"x">>}

\* destroy is given the callback exactly when --force is not
CliCalls ==
    {[MkCall(op, NoName, WsDot, <<FALSE, FALSE>>) EXCEPT !.query = q] :
        op \in {"attach", "stop"}, q \in CliQueries}
    \cup {[MkCall("destroy", NoName, WsDot, <<force, ~force>>) EXCEPT !.query = q] :
            force \in BOOLEAN, q \in CliQueries}
    \cup {MkCall("list", NoName, WsDot, <<FALSE, FALSE>>)}

InitCli ==
    /\ containers \in SUBSET CliPool
    /\ nextId = 6
    /\ ncalls = 0
    /\ pc = [p \in Procs |-> "idle"]
    /\ call = [p \in Procs |-> NoCall]
    /\ loc = [p \in Procs |-> NoLoc]
    /\ log = [p \in Procs |-> <<>>]
    /\ prompts = [p \in Procs |-> <<>>]
    /\ result = [p \in Procs |-> "none"]
    /\ ret = [p \in Procs |-> <<>>]
    /\ pre = [p \in Procs |-> {}]
    /\ host = PlainHost
    /\ mgr = PlainManager
    /\ app = NoApp

\* a command begins: with a NAME it resolves the name first
BeginCli(p) ==
    /\ Free(p)
    /\ \A q \in Procs : q < p => ~Free(q)
    /\ \A q \in Procs : Free(q)
    /\ ncalls < MaxCliCalls
    /\ \E c \in CliCalls :
          /\ call' = Set(call, p, c)
          /\ pc' = Set(pc, p, IF c.query # <<>> THEN "cli_resolve" ELSE FirstPc(c.op))
    /\ ncalls' = ncalls + 1
    /\ pre' = Set(pre, p, containers)
    /\ loc' = Set(loc, p, NoLoc)
    /\ log' = Set(log, p, <<>>)
    /\ prompts' = Set(prompts, p, <<>>)
    /\ result' = Set(result, p, "none")
    /\ ret' = Set(ret, p, <<>>)
    /\ UNCHANGED <<containers, nextId, host, mgr, app>>

NextCli ==
    \E p \in Procs :
        \/ BeginCli(p)
        \/ CliResolve(p)
        \/ ListSandboxes(p)
        \/ ListStatus(p)
        \/ AttachResolve(p)
        \/ AttachGet(p)
        \/ AttachStart(p)
        \/ AttachReload(p)
        \/ StopResolve(p)
        \/ StopGet(p)
        \/ StopStop(p)
        \/ DestroyResolve(p)
        \/ DestroyGet(p)
        \/ DestroyStop(p)
        \/ DestroyRemove(p)

CliSpec == InitCli /\ [][NextCli]_vars

(***************************************************************************)

(* Calls one at a time, `sb list` among them (ListSpec)                    *)
(***************************************************************************)
ListCalls == {MkCall("list", NoName, WsDot, <<FALSE, FALSE>>)}

BeginList(p) ==
    /\ \A q \in Procs : Free(q)
    /\ BeginFrom(p, ListCalls, MaxSeqCalls)

NextList ==
    \/ NextSeq
    \/ \E p \in Procs : BeginList(p) \/ ListSandboxes(p) \/ ListStatus(p)

ListSpec == Init /\ [][NextList]_vars

(***************************************************************************)

(* The functions of naming.py applied on their own (NameSpec, SanitizeSpec)*)
(***************************************************************************)
\* paths as generate_name may be given them; the first five name /w/a
NamePaths ==
    {<<".">>, <<"/", "w", "/", "a">>, <<"/", "w", "/", ".", "/", "a">>, <<"/", "w", "/", "b", "/", ".", ".", "/", "a">>, <<"/", "w", "/", "a", "/">>, <<"/", "u", "/", "a">>, <<"~">>,
     <<"/">>, <<"/", "w", "/", "M", "y", " ", "A", "p", "p">>, <<"/", "w", "/", "a", "_", "b">>, <<"/", "w", "/", "x", "-", "d", "e", "a", "d", "b", "e", "e", "f">>, <<"/", "w", "/", "s", "b", "-", "a", "-", "0", "a", "1", "b", "2", "c", "3", "d">>}

InitName ==
    /\ AtRest
    /\ \E paths \in NamePaths \X NamePaths :
          app = [fn |-> "generate_name", arg |-> paths, val |-> <<<<>>, <<>>>>]

\* generate_name(path) on one of the two paths
GenerateName ==
    /\ app.fn = "generate_name"
    /\ \E i \in {1, 2} :
          /\ app.val[i] = <<>>
          /\ app' = [app EXCEPT !.val[i] = <<generate_name(app.arg[i])>>]
    /\ UNCHANGED managerVars

\* _extract_dirname on an identity that generate_name returned
ExtractDirname ==
    /\ app.fn = "generate_name"
    /\ \E i \in {1, 2} :
          /\ Len(app.val[i]) = 1
          /\ app' = [app EXCEPT !.val[i] = Append(@, _extract_dirname(app.val[i][1]))]
    /\ UNCHANGED managerVars

NextName == GenerateName \/ ExtractDirname

NameSpec == InitName /\ [][NextName]_vars

MaxNameLen == 5     \* length of a directory name given to sanitize_dirname

\* an upper and a lower case letter, the hyphen, the underscore, the space and
\* a character that is removed
SanitizeChars == {"a", "B", "-", "_", " ", "."}

InitSanitize ==
    /\ AtRest
    /\ \E name \in ListsOf(SanitizeChars, MaxNameLen) :
          app = [fn |-> "sanitize_dirname", arg |-> name, val |-> <<>>]

\* sanitize_dirname(name), and sanitize_dirname of what it returned
SanitizeDirname ==
    /\ app.fn = "sanitize_dirname"
    /\ Len(app.val) < 2
    /\ app' = [app EXCEPT !.val = Append(@, sanitize_dirname(IF @ = <<>> THEN app.arg
                                                             ELSE @[1]))]
    /\ UNCHANGED managerVars

SanitizeSpec == InitSanitize /\ [][SanitizeDirname]_vars

(***************************************************************************)

(* Vocabulary of the properties                                            *)
(***************************************************************************)
IsManaged(c) == LabelGet(c.labels, "sb.managed", <<>>) = TrueStr

\* the managed containers of identity n among cs
ManagedNamed(cs, n) == {c \in cs : c.name = n /\ IsManaged(c)}

Done(p, op) == pc[p] = "done" /\ call[p].op = op

\* the requests of the given kinds that the call of p has issued
Issued(p, ops) == {i \in DOMAIN log[p] : log[p][i].op \in ops}

\* confirm_callback was invoked for one of `kinds` and returned TRUE
ConfirmedYes(p, kinds) ==
    \E j \in DOMAIN prompts[p] : prompts[p][j].kind \in kinds /\ prompts[p][j].answer

\* confirm_callback was invoked for one of `kinds` and returned FALSE
ConfirmedNo(p, kinds) ==
    \E j \in DOMAIN prompts[p] : prompts[p][j].kind \in kinds /\ ~prompts[p][j].answer

(***************************************************************************)
(* C1: a create or destroy call issues a stop or a remove only if it was   *)
(* given force=true or its confirmation callback was invoked for that      *)
(* destruction and returned true.                                          *)
(***************************************************************************)
C1_DestructionConfirmed ==
    \A p \in Procs :
        (call[p].op \in {"create", "destroy"} /\ Issued(p, {"stop", "remove"}) # {})
            => (call[p].force \/ ConfirmedYes(p, {"recreate", "destroy"}))

\* a create without force has removed the old container after a "yes"
C1_Witness ==
    \E p \in Procs :
        /\ call[p].op = "create" /\ ~call[p].force
        /\ \E i \in Issued(p, {"remove"}) : log[p][i].ok
        /\ ConfirmedYes(p, {"recreate"})

(***************************************************************************)
(* C2: create on an identity that has a container, with force=false and a  *)
(* callback answering false or no callback, fails with UserCancelled or    *)
(* AlreadyExists, issues no request, and leaves the daemon as it was.      *)
(***************************************************************************)
C2_DeclinedCreateTouchesNothing ==
    \A p \in Procs :
        (/\ Done(p, "create")
         /\ ManagedNamed(pre[p], TargetName(call[p])) # {}
         /\ ~call[p].force
         /\ (~call[p].cb \/ ConfirmedNo(p, {"recreate"})))
            => /\ result[p] \in {"UserCancelled", "AlreadyExists"}
               /\ log[p] = <<>>
               /\ containers = pre[p]

C2_Witness ==
    \E p \in Procs :
        /\ Done(p, "create")
        /\ ManagedNamed(pre[p], TargetName(call[p])) # {}
        /\ ~call[p].force /\ call[p].cb /\ ConfirmedNo(p, {"recreate"})
        /\ result[p] = "UserCancelled"
        /\ containers = pre[p]

(***************************************************************************)
(* C3: a create on an identity that has a container either succeeds, with *)
(* the old container replaced by a new one, or fails with the old          *)
(* container still there; it never fails with the old container removed.   *)
(***************************************************************************)
C3_RecreateNeverPartial ==
    \A p \in Procs :
        (Done(p, "create") /\ ManagedNamed(pre[p], TargetName(call[p])) # {})
            => LET old == CHOOSE c \in ManagedNamed(pre[p], TargetName(call[p])) : TRUE
               IN IF result[p] = "ok"
                  THEN /\ GetById(old.id) = <<>>
                       /\ ManagedNamed(containers, TargetName(call[p])) # {}
                  ELSE GetById(old.id) # <<>>

(***************************************************************************)
(* C4: a successful create on an absent identity leaves exactly one        *)
(* container of that name, created and not started, and returns its        *)
(* SandboxInfo: the identity, the absolute workspace, the new id.          *)
(***************************************************************************)
C4_CreateOnAbsent ==
    \A p \in Procs :
        (/\ Done(p, "create") /\ result[p] = "ok"
         /\ {c \in pre[p] : c.name = TargetName(call[p])} = {})
            => LET named == {c \in containers : c.name = TargetName(call[p])}
               IN /\ Cardinality(named) = 1
                  /\ \A c \in named :
                        /\ c.status = "created"
                        /\ c.id \notin {d.id : d \in pre[p]}
                        /\ ret[p] = <<[name |-> TargetName(call[p]),
                                       workspace |-> abspath(expanduser(call[p].workspace)),
                                       container_id |-> c.id]>>
                        /\ c.id # 0

\* the home directory, given as "~", got its sandbox
C4_Witness ==
    \E p \in Procs :
        /\ Done(p, "create") /\ result[p] = "ok"
        /\ call[p].name = NoName /\ call[p].workspace = WsHome
        /\ {c \in pre[p] : c.name = TargetName(call[p])} = {}
        /\ ret[p][1].workspace = HomeDir
        /\ \E c \in containers : c.id = ret[p][1].container_id /\ c.status = "created"

\* the identity a container stands for
IdentityOf(c) == LabelGet(c.labels, "sb.name", c.name)

OneContainerPerIdentity ==
    \A c, d \in containers :
        (c.name = d.name \/ IdentityOf(c) = IdentityOf(d)) => c = d

\* q found the identity absent, p has made its container since: q's create step
RaceLoserFails ==
    \A p, q \in Procs :
        (/\ p # q
         /\ Done(p, "create") /\ result[p] = "ok"
         /\ \E c \in containers : ret[p] = <<_container_to_sandbox_info(c)>>
         /\ call[q].op = "create" /\ pc[q] = "c_make" /\ loc[q].sandbox = <<>>
         /\ TargetName(call[q]) = TargetName(call[p])
         /\ pc'[q] = "done")
            => /\ result'[q] # "ok"
               /\ containers' = containers

(***************************************************************************)
(* C5: at most one container exists per identity, whether the identity is  *)
(* read from the container name or from the sb.name label; and when a      *)
(* create found the identity absent and another create makes the container *)
(* before it does, it fails and adds no second container.                  *)
(***************************************************************************)
C5_OneContainerPerIdentity == []OneContainerPerIdentity /\ [][RaceLoserFails]_vars

\* two creates raced on an absent identity: one made the container, the other
\* was refused by the daemon
C5_Witness ==
    \E p, q \in Procs :
        /\ p # q
        /\ Done(p, "create") /\ Done(q, "create")
        /\ TargetName(call[p]) = TargetName(call[q])
        /\ {c \in pre[p] \cup pre[q] : c.name = TargetName(call[p])} = {}
        /\ result[p] = "ok" /\ result[q] = "APIError"
        /\ Cardinality({c \in containers : c.name = TargetName(call[p])}) = 1

(***************************************************************************)
(* C6: no two managed containers carry the same absolute workspace path in *)
(* their sb.workspace label, and the sandbox a create has made is the one  *)
(* a lookup by its workspace finds.                                        *)
(***************************************************************************)
C6_OneSandboxPerWorkspace ==
    /\ \A c, d \in containers :
          (/\ IsManaged(c) /\ IsManaged(d)
           /\ LabelGet(c.labels, "sb.workspace", <<>>)
                 = LabelGet(d.labels, "sb.workspace", <<>>))
              => c = d
    /\ \A p \in Procs :
          (Done(p, "create") /\ result[p] = "ok")
              => get_sandbox_for_path(ret[p][1].workspace) = ret[p]

(***************************************************************************)
(* C7: destroy with force=true on a running sandbox issues stop and then   *)
(* remove, on a stopped sandbox remove alone; remove is never issued on a  *)
(* running container; afterwards get_sandbox finds nothing for the name.   *)
(***************************************************************************)
C7_ForcedDestroy ==
    \A p \in Procs :
        (/\ Done(p, "destroy") /\ call[p].force
         /\ ManagedNamed(pre[p], TargetName(call[p])) # {})
            => LET old == CHOOSE c \in ManagedNamed(pre[p], TargetName(call[p])) : TRUE
                   stop == [op |-> "stop", id |-> old.id, ok |-> TRUE]
                   remove == [op |-> "remove", id |-> old.id, ok |-> TRUE]
               IN /\ result[p] = "ok"
                  /\ log[p] = IF old.status = "running" THEN <<stop, remove>>
                              ELSE <<remove>>
                  /\ get_sandbox(TargetName(call[p])) = <<>>
                  /\ GetById(old.id) = <<>>

C7_Witness ==
    \E p \in Procs :
        /\ Done(p, "destroy") /\ call[p].force
        /\ \E old \in ManagedNamed(pre[p], TargetName(call[p])) :
              /\ old.status = "running"
              /\ Len(log[p]) = 2 /\ log[p][1].op = "stop" /\ log[p][2].op = "remove"
        /\ get_sandbox(TargetName(call[p])) = <<>>

(***************************************************************************)
(* C8: destroy with force=false on an existing sandbox: a callback         *)
(* answering false fails the call with UserCancelled, no callback fails    *)
(* it too, and in both cases nothing is stopped or removed; a callback     *)
(* answering true has the container stopped if running and removed.        *)
(***************************************************************************)
C8_UnforcedDestroy ==
    \A p \in Procs :
        (/\ Done(p, "destroy") /\ ~call[p].force
         /\ ManagedNamed(pre[p], TargetName(call[p])) # {})
            => LET old == CHOOSE c \in ManagedNamed(pre[p], TargetName(call[p])) : TRUE
               IN IF call[p].cb /\ ConfirmedYes(p, {"destroy"})
                  THEN /\ result[p] = "ok"
                       /\ GetById(old.id) = <<>>
                       /\ (old.status = "running") =
                             (\E i \in Issued(p, {"stop"}) : log[p][i].ok)
                  ELSE /\ result[p] = IF call[p].cb THEN "UserCancelled"
                                      ELSE "ConfirmationRequired"
                       /\ log[p] = <<>>
                       /\ containers = pre[p]

\* a running sandbox survived a declined destroy
C8_Witness ==
    \E p \in Procs :
        /\ Done(p, "destroy") /\ ~call[p].force /\ ConfirmedNo(p, {"destroy"})
        /\ \E old \in ManagedNamed(pre[p], TargetName(call[p])) :
              old.status = "running" /\ old \in containers
        /\ result[p] = "UserCancelled"

(***************************************************************************)
(* C9: a create or destroy call given force=true never invokes the         *)
(* confirmation callback, for no prompt, and is not refused by a gate.     *)
(***************************************************************************)
C9_ForceSkipsConfirmation ==
    \A p \in Procs :
        (call[p].op \in {"create", "destroy"} /\ call[p].force)
            => /\ prompts[p] = <<>>
               /\ result[p] \notin {"UserCancelled", "AlreadyExists",
                                    "SensitiveDirectoryDeclined", "ConfirmationRequired"}

\* the home directory's sandbox was recreated under force, with a callback at hand
C9_Witness ==
    \E p \in Procs :
        /\ Done(p, "create") /\ call[p].force /\ call[p].cb
        /\ _check_sensitive_dir(call[p].workspace)
        /\ loc[p].sandbox # <<>>
        /\ result[p] = "ok"
        /\ prompts[p] = <<>>

(***************************************************************************)
(* C10: attach on a stopped sandbox issues one start, the container runs   *)
(* when attach returns; on a running sandbox it issues nothing and leaves  *)
(* the daemon as it was; either way it returns that sandbox's container.   *)
(***************************************************************************)
C10_Attach ==
    \A p \in Procs :
        (Done(p, "attach") /\ ManagedNamed(pre[p], TargetName(call[p])) # {})
            => LET old == CHOOSE c \in ManagedNamed(pre[p], TargetName(call[p])) : TRUE
               IN /\ result[p] = "ok"
                  /\ ret[p] = <<[old EXCEPT !.status = "running"]>>
                  /\ ret[p][1] \in containers
                  /\ IF old.status = "running"
                     THEN log[p] = <<>> /\ containers = pre[p]
                     ELSE log[p] = <<[op |-> "start", id |-> old.id, ok |-> TRUE]>>

\* a sandbox that create had just made (never started) was attached
C10_Witness ==
    \E p \in Procs :
        /\ Done(p, "attach") /\ result[p] = "ok"
        /\ \E old \in ManagedNamed(pre[p], TargetName(call[p])) : old.status = "created"
        /\ ret[p][1].status = "running"
        /\ ret[p][1] \in containers

(***************************************************************************)
(* C11: stop on a running sandbox issues one stop; on a sandbox that is    *)
(* not running it issues nothing and succeeds; either way it returns the   *)
(* sandbox's SandboxInfo and the container is still there, not running.    *)
(***************************************************************************)
C11_Stop ==
    \A p \in Procs :
        (Done(p, "stop") /\ ManagedNamed(pre[p], TargetName(call[p])) # {})
            => LET old == CHOOSE c \in ManagedNamed(pre[p], TargetName(call[p])) : TRUE
               IN /\ result[p] = "ok"
                  /\ ret[p] = <<_container_to_sandbox_info(old)>>
                  /\ \E c \in containers : c.id = old.id /\ c.status # "running"
                  /\ IF old.status = "running"
                     THEN /\ log[p] = <<[op |-> "stop", id |-> old.id, ok |-> TRUE]>>
                          /\ containers = RuntimeStop(pre[p], old.id)
                     ELSE log[p] = <<>> /\ containers = pre[p]

\* a running sandbox was stopped
C11_Witness ==
    \E p \in Procs :
        /\ Done(p, "stop") /\ result[p] = "ok"
        /\ \E old \in ManagedNamed(pre[p], TargetName(call[p])) :
              /\ old.status = "running"
              /\ [old EXCEPT !.status = "exited"] \in containers
        /\ Len(log[p]) = 1

(***************************************************************************)
(* C12: attach, stop and destroy on a name or workspace that has no        *)
(* managed container fail with NotFound, issue no request, ask nothing,    *)
(* and leave the daemon as it was.                                         *)
(***************************************************************************)
C12_NotFound ==
    \A p \in Procs :
        (/\ pc[p] = "done" /\ call[p].op \in {"attach", "stop", "destroy"}
         /\ ManagedNamed(pre[p], TargetName(call[p])) = {})
            => /\ result[p] = "NotFound"
               /\ log[p] = <<>>
               /\ prompts[p] = <<>>
               /\ containers = pre[p]

\* destroy with a callback, on a name held by a container sb does not manage
C12_Witness ==
    \E p \in Procs :
        /\ Done(p, "destroy") /\ call[p].cb /\ ~call[p].force
        /\ call[p].name = NameX /\ UnmanagedX \in pre[p]
        /\ result[p] = "NotFound"
        /\ prompts[p] = <<>>
        /\ containers = pre[p]

\* Running, Stopped or Absent: the lifecycle state of identity n among cs
Lifecycle(cs, n) ==
    IF ManagedNamed(cs, n) = {} THEN "Absent"
    ELSE IF \E c \in ManagedNamed(cs, n) : c.status = "running" THEN "Running"
    ELSE "Stopped"

\* the state attach, stop and destroy aim at
TargetState(op) ==
    CASE op = "attach" -> "Running"
      [] op = "stop" -> "Stopped"
      [] op = "destroy" -> "Absent"

\* confirm_callback gave one and the same answer whenever it was invoked
SameAnswers(p) ==
    \A i, j \in DOMAIN prompts[p] : prompts[p][i].answer = prompts[p][j].answer

(***************************************************************************)
(* C13: attach, stop and destroy are idempotent: invoked a second time     *)
(* with the same arguments and the same confirmation answers, nothing in   *)
(* between, they leave the identity in the lifecycle state the first       *)
(* invocation left it in; an invocation that succeeds leaves it Running,   *)
(* Stopped and Absent respectively.                                        *)
(***************************************************************************)
C13_Idempotent ==
    \A p \in Procs :
        (pc[p] = "done" /\ call[p].op \in {"attach", "stop", "destroy"})
            => LET n == TargetName(call[p])
               IN /\ (call[p].again /\ SameAnswers(p))
                        => Lifecycle(containers, n) = Lifecycle(pre[p], n)
                  /\ result[p] = "ok"
                        => Lifecycle(containers, n) = TargetState(call[p].op)

\* destroy was confirmed and removed the sandbox; destroy again found nothing
C13_Witness ==
    \E p \in Procs :
        /\ Done(p, "destroy") /\ call[p].again
        /\ ConfirmedYes(p, {"destroy"}) /\ SameAnswers(p)
        /\ result[p] = "NotFound"
        /\ Lifecycle(containers, TargetName(call[p])) = "Absent"
        /\ nextId = 3

PlanOf(p) == loc[p].mounts

\* the entries of `paths` that exist on the host, in order
Existing(paths) == SelectSeq(paths, LAMBDA x : exists(host, expanduser(x)))

ExistingDefaults ==
    SelectSeq(DEFAULT_MOUNTS, LAMBDA d : exists(host, expanduser(d.host_path)))

(***************************************************************************)
(* C15: no container is created whose mount plan contains a sensitive host *)
(* path, as workspace or as an extra mount, unless force=true or the       *)
(* callback returned true for a sensitive-directory warning.               *)
(***************************************************************************)
C15_SensitiveMountConfirmed ==
    \A p \in Procs :
        (/\ Done(p, "create") /\ result[p] = "ok"
         /\ \E i \in DOMAIN PlanOf(p) : _check_sensitive_dir(PlanOf(p)[i].source))
            => (call[p].force \/ ConfirmedYes(p, {"sensitive"}))

(***************************************************************************)
(* C16: the mount plan contains no mount whose host path does not exist,   *)
(* the workspace entry included.                                           *)
(***************************************************************************)
C16_PlanPathsExist ==
    \A p \in Procs :
        \A i \in DOMAIN PlanOf(p) : exists(host, PlanOf(p)[i].source)

UnderHomeSandbox(host_path) ==
    LET expanded == expanduser(host_path)
        n == Len(HomeDir)
    IN IF /\ Len(expanded) >= n
          /\ SubSeq(expanded, 1, n) = HomeDir
          /\ (Len(expanded) = n \/ expanded[n + 1] = "/")
       THEN HomeSandbox \o SubSeq(expanded, n + 1, Len(expanded))
       ELSE expanded

(***************************************************************************)
(* C18: every extra mount of the plan has as container path its host path  *)
(* with the leading home prefix, written "~" or expanded, replaced by      *)
(* /home/sandbox.                                                          *)
(***************************************************************************)
C18_ContainerPath ==
    \A p \in Procs :
        (Done(p, "create") /\ PlanOf(p) # <<>>)
            => LET extras == Existing(mgr.extra_mounts) \o Existing(call[p].extra_mounts)
                   first == Len(PlanOf(p)) - Len(extras)
               IN \A i \in DOMAIN extras :
                     PlanOf(p)[first + i].target = UnderHomeSandbox(extras[i])

\* the environment the create call of p handed to client.containers.create
EnvOf(p) == loc[p].environment

\* manager-level entries, then the call's
AllEntries(p) == mgr.env_passthrough \o call[p].env_vars

\* the key an entry names: what precedes its first "=", or the whole of it
KeyOf(entry) ==
    IF \E i \in DOMAIN entry : entry[i] = "="
    THEN SubSeq(entry, 1, IndexOf(entry, "=") - 1)
    ELSE entry

(***************************************************************************)
(* C19: every container create makes has HOST_UID and HOST_GID set to the  *)
(* invoking user's uid and gid, whatever the manager-level and per-call    *)
(* entries are, entries naming HOST_UID or HOST_GID included.              *)
(***************************************************************************)
C19_HostIds ==
    \A p \in Procs :
        (Done(p, "create") /\ result[p] = "ok")
            => /\ HOST_UID \in DOMAIN EnvOf(p) /\ EnvOf(p)[HOST_UID] = <<"1", "0", "0", "0">>
               /\ HOST_GID \in DOMAIN EnvOf(p) /\ EnvOf(p)[HOST_GID] = <<"1", "0", "0">>

(***************************************************************************)
(* C20: the environment is what applying the manager-level entries and     *)
(* then the call's, in order, gives: KEY=value sets KEY to what follows    *)
(* the first "="; a bare KEY is set to the caller's value of KEY when KEY  *)
(* is set, be it to the empty string, and is left out when it is unset;    *)
(* a later entry overrides an earlier one for the same key.                *)
(***************************************************************************)
C20_Environment ==
    \A p \in Procs :
        (Done(p, "create") /\ result[p] = "ok")
            => LET all == AllEntries(p)
                   Literal(e) == \E i \in DOMAIN e : e[i] = "="
                   Sets(e) == Literal(e) \/ e \in DOMAIN host.environ
                   ValueOf(e) == IF Literal(e)
                                 THEN SubSeq(e, Len(KeyOf(e)) + 2, Len(e))
                                 ELSE host.environ[e]
                   setting == {i \in DOMAIN all : Sets(all[i])}
                   last == {i \in setting :
                               \A j \in setting : j > i => KeyOf(all[j]) # KeyOf(all[i])}
               IN /\ \A i \in last :
                        /\ KeyOf(all[i]) \in DOMAIN EnvOf(p)
                        /\ EnvOf(p)[KeyOf(all[i])] = ValueOf(all[i])
                  /\ \A k \in DOMAIN EnvOf(p) :
                        k \in {HOST_UID, HOST_GID} \/ \E i \in last : KeyOf(all[i]) = k

(***************************************************************************)
(* C21..C24: the matcher                                                   *)
(***************************************************************************)
\* the identity without its sb- prefix and its -{8 hex} suffix, or the identity
EmbeddedDirname(identity) ==
    LET fits == {k \in 1..Len(identity) :
                    /\ Len(identity) = 3 + k + 9
                    /\ identity = <<"s", "b", "-">> \o SubSeq(identity, 4, 3 + k)
                                    \o <<"-">> \o SubSeq(identity, 5 + k, 12 + k)
                    /\ \A i \in (5 + k)..(12 + k) : identity[i] \in HexChars}
    IN IF fits = {} THEN identity
       ELSE LET k == CHOOSE k \in fits : TRUE IN SubSeq(identity, 4, 3 + k)

\* the rules of the matcher that apply to a query and an identity, by their score
RulesThatApply(query, identity) ==
    LET q == lower(query)
        id == lower(identity)
        dir == lower(EmbeddedDirname(identity))
    IN {r \in {0, 10, 20, 30, 40, 50} :
          \/ r = 0 /\ q = id
          \/ r = 10 /\ StartsWith(id, q)
          \/ r = 20 /\ q = dir
          \/ r = 30 /\ StartsWith(dir, q)
          \/ r = 40 /\ Contains(dir, q)
          \/ r = 50 /\ Contains(id, q)}

Lowest(S) == CHOOSE r \in S : \A t \in S : r <= t

\* C21: the score of a candidate is that of the first rule that applies, compared
\* case-insensitively: 0 query equals the identity, 10 the identity starts with
\* the query, 20 the query equals the embedded dirname, 30 the dirname starts
\* with the query, 40 the dirname contains the query, 50 the identity contains
\* the query; a candidate no rule applies to has no score.
C21_FirstRuleScores ==
    app.fn = "_score_match" =>
        LET rules == RulesThatApply(app.arg.query, app.arg.sandbox.name)
        IN app.val[1] = IF rules = {} THEN None ELSE <<Lowest(rules)>>

\* the dirname of an explicit name is the name itself: oba inside foobar scores 40
C21_Witness ==
    /\ app.fn = "_score_match"
    /\ app.arg.query = <<"o", "b", "a">>
    /\ app.arg.sandbox.name = <<"f", "o", "o", "b", "a", "r">>
    /\ app.val = <<<<40>>>>

\* the candidates of the applied search, and what it returned
Candidates == app.arg.sandboxes
Found == app.val[1]
Searched == app.fn = "find_matching_sandboxes"

\* the candidate scores 0: the query is its identity, letter case aside
ScoresZero(sandbox) == lower(app.arg.query) = lower(sandbox.name)

\* C22: if any candidate scores 0, the result has exactly one element, and that
\* element is a candidate that scores 0, whatever else matches and in whatever
\* order the candidates are given.
C22_ShortCircuit ==
    (Searched /\ \E i \in DOMAIN Candidates : ScoresZero(Candidates[i])) =>
        /\ Len(Found) = 1
        /\ \E i \in DOMAIN Candidates : Found[1] = Candidates[i]
        /\ ScoresZero(Found[1])

\* two candidates score 0 and a third matches by its dirname; the exact match
\* stands last in the input
C22_Witness ==
    /\ Searched
    /\ app.arg.query = <<"f", "o", "o">>
    /\ Len(Candidates) = 3
    /\ Candidates[1].name = <<"s", "b", "-", "f", "o", "o", "-", "a", "a", "a", "a", "1", "1", "1", "1">>
    /\ Candidates[2].name = <<"f", "o", "o", "b", "a", "r">>
    /\ Candidates[3].name = <<"F", "o", "o">>
    /\ Len(Found) = 1

\* the score of a matching candidate, and its place in the input
ScoreOf(sandbox) == Lowest(RulesThatApply(app.arg.query, sandbox.name))
Matches(sandbox) == RulesThatApply(app.arg.query, sandbox.name) # {}
PlaceOf(sandbox) == CHOOSE i \in DOMAIN Candidates : Candidates[i] = sandbox

\* C23: when no candidate scores 0, the result is exactly the matching
\* candidates, each once and none left out, in ascending order of score, and
\* candidates of equal score in the order of the input.
C23_SortedMatches ==
    (Searched /\ \A i \in DOMAIN Candidates : ~ScoresZero(Candidates[i])) =>
        /\ \A i \in DOMAIN Candidates :
              Matches(Candidates[i]) <=>
                  Cardinality({j \in DOMAIN Found : Found[j] = Candidates[i]}) = 1
        /\ \A j \in DOMAIN Found :
              \E i \in DOMAIN Candidates : Found[j] = Candidates[i] /\ Matches(Found[j])
        /\ \A j, k \in DOMAIN Found :
              j < k => \/ ScoreOf(Found[j]) < ScoreOf(Found[k])
                       \/ /\ ScoreOf(Found[j]) = ScoreOf(Found[k])
                          /\ PlaceOf(Found[j]) < PlaceOf(Found[k])

\* fo: the explicit name foobar (10) overtakes the two dirname matches (30), which
\* keep their order
C23_Witness ==
    /\ Searched
    /\ app.arg.query = <<"f", "o">>
    /\ Len(Candidates) = 3
    /\ Len(Found) = 3
    /\ Candidates[2].name = <<"f", "o", "o", "b", "a", "r">>
    /\ Found = <<Candidates[2], Candidates[1], Candidates[3]>>
    /\ ScoreOf(Candidates[1]) = 30
    /\ ScoreOf(Candidates[3]) = 30

\* the candidate's embedded dirname is the query; it starts with the query and
\* is longer; the candidate's identity starts with the query
DirnameExact(sandbox) ==
    lower(EmbeddedDirname(sandbox.name)) = lower(app.arg.query)
DirnamePrefix(sandbox) ==
    /\ StartsWith(lower(EmbeddedDirname(sandbox.name)), lower(app.arg.query))
    /\ ~DirnameExact(sandbox)
IdentityPrefix(sandbox) == StartsWith(lower(sandbox.name), lower(app.arg.query))

\* C24: a candidate whose embedded dirname equals the query stands in the result
\* strictly before every candidate whose embedded dirname starts with the query
\* without being equal to it, whatever the order of the input.
C24_DirnameExactFirst ==
    Searched =>
        \A j, k \in DOMAIN Found :
            (DirnameExact(Found[j]) /\ DirnamePrefix(Found[k])) => j < k

\* C24, amended: a candidate whose embedded dirname equals the query stands in
\* the result strictly before every candidate whose embedded dirname starts with
\* the query without being equal to it and whose identity does not start with
\* the query (the candidates of score 30), whatever the order of the input.
C24_DirnameExactBeforeScore30 ==
    Searched =>
        \A j, k \in DOMAIN Found :
            (/\ DirnameExact(Found[j])
             /\ DirnamePrefix(Found[k])
             /\ ~IdentityPrefix(Found[k])) => j < k

\* foo: sb-foobar-bbbb2222 is given first and sb-foo-aaaa1111 is returned first
C24_Witness ==
    /\ Searched
    /\ app.arg.query = <<"f", "o", "o">>
    /\ Len(Candidates) = 2
    /\ DirnamePrefix(Candidates[1])
    /\ ~IdentityPrefix(Candidates[1])
    /\ DirnameExact(Candidates[2])
    /\ Found = <<Candidates[2], Candidates[1]>>

(***************************************************************************)
(* C25..C27: name resolution, status and listing                           *)
(***************************************************************************)
\* the managed sandboxes among cs that the query matches, and those it names
MatchedBy(query, cs) ==
    {_container_to_sandbox_info(c) :
        c \in {d \in cs : IsManaged(d) /\ RulesThatApply(query, d.name) # {}}}
NamedBy(query, cs) == {s \in MatchedBy(query, cs) : 0 \in RulesThatApply(query, s.name)}

\* the matches that remain: the exact ones when there are any
Remaining(query, cs) ==
    IF NamedBy(query, cs) # {} THEN NamedBy(query, cs) ELSE MatchedBy(query, cs)

\* more than one match remains: several match and none exactly
Ambiguous(query, cs) == NamedBy(query, cs) = {} /\ Cardinality(MatchedBy(query, cs)) > 1

\* C25: attach, stop and destroy by NAME.  No match: a not-found error.  More
\* than one remaining match: an ambiguity error that lists every match with its
\* workspace, also when the scores differ.  Exactly one remaining match (an exact
\* match included): the operation acts on that sandbox and on no other.  On
\* either error no start, stop or remove request is made.
C25_NameResolution ==
    \A p \in Procs :
        call[p].query # <<>> =>
            LET q == call[p].query
                left == Remaining(q, pre[p])
            IN /\ left = {} =>
                    /\ log[p] = <<>> /\ containers = pre[p]
                    /\ pc[p] = "done" => result[p] = "NotFound"
               /\ Ambiguous(q, pre[p]) =>
                    /\ log[p] = <<>> /\ containers = pre[p]
                    /\ pc[p] = "done" =>
                          /\ result[p] = "AmbiguousMatch"
                          /\ Len(ret[p][1]) = Cardinality(left)
                          /\ {ret[p][1][i] : i \in DOMAIN ret[p][1]}
                                = {<<s.name, s.workspace>> : s \in left}
               /\ (left # {} /\ ~Ambiguous(q, pre[p])) =>
                    \E s \in left :
                       /\ \A i \in DOMAIN log[p] : log[p][i].id = s.container_id
                       /\ {c \in containers : c.id # s.container_id}
                             = {c \in pre[p] : c.id # s.container_id}
                       /\ pc[p] \notin {"idle", "cli_resolve"} => call[p].name = s.name
                       /\ pc[p] = "done" =>
                             /\ result[p] \in {"ok", "UserCancelled"}
                             /\ result[p] = "ok" =>
                                   Lifecycle(containers, s.name) = TargetState(call[p].op)

\* destroy --force a: sb-a-0a1b2c3d matches by its dirname (20) and sb-ab-ffffffff
\* by the start of its dirname (30); both are listed and nothing is removed
C25_Witness ==
    \E p \in Procs :
        /\ Done(p, "destroy")
        /\ call[p].force
        /\ call[p].query = <<"a">>
        /\ {c.name : c \in pre[p]}
              = {NameA, NameX, <<"s", "b", "-", "a", "b", "-", "f", "f", "f", "f", "f", "f", "f", "f">>}
        /\ result[p] = "AmbiguousMatch"
        /\ Len(ret[p][1]) = 2
        /\ containers = pre[p]

\* the rows `sb list` has printed so far
Rows(p) == loc[p].rows

\* C26: the status of a sandbox is always one of running, stopped and unknown,
\* whatever the state of its container (created and never started, exited), and
\* it is unknown exactly when the sandbox has no container id or the daemon no
\* longer knows the id.
C26_StatusOf ==
    \A p \in Procs :
        \A i \in DOMAIN Rows(p) :
            LET row == Rows(p)[i]
            IN /\ row.status \in {"running", "stopped", "unknown"}
               /\ row.status = "unknown" <=>
                     \/ row.sandbox.container_id = 0
                     \/ GetById(row.sandbox.container_id) = <<>>

\* the sandboxes of the rows `sb list` returned
Listed(p) == IF ret[p] = <<>> THEN <<>> ELSE [i \in DOMAIN ret[p][1] |-> ret[p][1][i].sandbox]

\* C27: the labelled containers are the only index.  list() returns exactly one
\* SandboxInfo for each container that carries the management label, running
\* or not, and none for any other container; and for every sandbox that create
\* made and that is not destroyed, list() and get by identity both return the
\* SandboxInfo whose name and workspace are the identity and the absolute
\* workspace path that create attached as labels.
C27_LabelsAreTheIndex ==
    \A p \in Procs :
        /\ (Done(p, "list") /\ result[p] = "ok") =>
              /\ \A c \in containers :
                    Cardinality({i \in DOMAIN Listed(p) : Listed(p)[i].container_id = c.id})
                        = IF IsManaged(c) THEN 1 ELSE 0
              /\ \A i \in DOMAIN Listed(p) :
                    \E c \in containers :
                       /\ IsManaged(c)
                       /\ Listed(p)[i] = [name |-> c.labels["sb.name"],
                                          workspace |-> c.labels["sb.workspace"],
                                          container_id |-> c.id]
                       /\ get_sandbox(c.labels["sb.name"]) = <<Listed(p)[i]>>
        /\ (Done(p, "create") /\ result[p] = "ok") =>
              LET made == [name |-> TargetName(call[p]),
                           workspace |-> abspath(expanduser(call[p].workspace))]
              IN /\ \E c \in containers :
                       /\ IsManaged(c)
                       /\ c.labels["sb.name"] = made.name
                       /\ c.labels["sb.workspace"] = made.workspace
                 /\ \A l \in list_sandboxes :
                       \E i \in DOMAIN l : /\ l[i].name = made.name
                                           /\ l[i].workspace = made.workspace
                                           /\ get_sandbox(made.name) = <<l[i]>>

\* sb list shows the sandbox that create made for the home directory in this
\* behaviour, and not the container beside it that sb did not create
C27_Witness ==
    \E p \in Procs :
        /\ Done(p, "list")
        /\ UnmanagedX \in containers
        /\ Len(Listed(p)) = 1
        /\ Listed(p)[1].container_id >= 3
        /\ Listed(p)[1].workspace = HomeDir

(***************************************************************************)
(* C28..C30: identities                                                    *)
(***************************************************************************)
\* generate_name was applied to the i-th path; the identity it returned; the
\* absolute path the i-th path names
Generated(i) == app.fn = "generate_name" /\ app.val[i] # <<>>
Identity(i) == app.val[i][1]
AbsPath(i) == abspath(app.arg[i])

\* C28: the identity is a function of the normalized absolute path alone.  Two
\* inputs that name the same absolute path get the same identity; the identity
\* is sb-, the sanitized basename of the absolute path, a hyphen, and the first
\* 8 hex characters of the hash of the absolute path; two different absolute
\* paths of the same basename get different identities whenever their 8-digit
\* digests differ.
C28_Generate ==
    (Generated(1) /\ Generated(2)) =>
        /\ AbsPath(1) = AbsPath(2) => Identity(1) = Identity(2)
        /\ \A i \in {1, 2} :
              LET id == Identity(i)
                  n == Len(id)
              IN /\ n >= 13
                 /\ SubSeq(id, 1, 3) = <<"s", "b", "-">>
                 /\ SubSeq(id, 4, n - 9) = sanitize_dirname(basename(AbsPath(i)))
                 /\ id[n - 8] = "-"
                 /\ SubSeq(id, n - 7, n) = Hash8(AbsPath(i))
                 /\ \A j \in (n - 7)..n : id[j] \in HexChars
        /\ (/\ AbsPath(1) # AbsPath(2)
            /\ basename(AbsPath(1)) = basename(AbsPath(2))
            /\ Hash8(AbsPath(1)) # Hash8(AbsPath(2))) => Identity(1) # Identity(2)

\* in /w/a, the paths . and /w/b/../a get the identity of /w/a
C28_Witness ==
    /\ Generated(1) /\ Generated(2)
    /\ app.arg = <<<<".">>, <<"/", "w", "/", "b", "/", ".", ".", "/", "a">>>>
    /\ Identity(1) = <<"s", "b", "-", "a", "-", "0", "a", "1", "b", "2", "c", "3", "d">>
    /\ Identity(2) = Identity(1)

\* sanitize_dirname was applied; what it returned; it was applied to that again
Sanitized == app.fn = "sanitize_dirname" /\ app.val # <<>>
Clean == app.val[1]
SanitizedAgain == app.fn = "sanitize_dirname" /\ Len(app.val) = 2

\* C29: sanitize is idempotent.  Its output is never empty, has only characters
\* of [a-z0-9-_], neither begins nor ends with a hyphen and has no two hyphens
\* side by side, also where a removed character stood between two hyphens; an
\* input of which nothing is left yields "sandbox".
C29_Sanitize ==
    /\ Sanitized =>
          /\ Clean # <<>>
          /\ \A i \in DOMAIN Clean :
                Clean[i] \in {LowerLetters[j] : j \in DOMAIN LowerLetters}
                                \cup Digits \cup {"-", "_"}
          /\ Clean[1] # "-" /\ Clean[Len(Clean)] # "-"
          /\ \A i \in 1..(Len(Clean) - 1) : ~(Clean[i] = "-" /\ Clean[i + 1] = "-")
          /\ (\A i \in DOMAIN app.arg : app.arg[i] \in {"-", " ", "."}) =>
                Clean = <<"s", "a", "n", "d", "b", "o", "x">>
    /\ SanitizedAgain => app.val[2] = Clean

\* a-.-B: the dot between the hyphens goes, one hyphen stays, and a-b stays a-b
C29_Witness ==
    /\ SanitizedAgain
    /\ app.arg = <<"a", "-", ".", "-", "B">>
    /\ app.val = <<<<"a", "-", "b">>, <<"a", "-", "b">>>>

\* _extract_dirname was applied to the identity of the i-th path
Extracted(i) == app.fn = "generate_name" /\ Len(app.val[i]) = 2

\* C30: construction and parsing of an identity are inverse.  For every
\* workspace path, the dirname extracted from its identity is the sanitized
\* basename the identity was made of, also when that has hyphens or
\* underscores or ends in a hyphen and 8 hex characters.
C30_RoundTrip ==
    \A i \in {1, 2} :
        Extracted(i) => app.val[i][2] = sanitize_dirname(basename(AbsPath(i)))

\* /w/x-deadbeef: from sb-x-deadbeef-ffffffff the dirname x-deadbeef comes back
C30_Witness ==
    /\ Extracted(1)
    /\ app.arg[1] = <<"/", "w", "/", "x", "-", "d", "e", "a", "d", "b", "e", "e", "f">>
    /\ app.val[1] = <<<<"s", "b", "-", "x", "-", "d", "e", "a", "d", "b", "e", "e", "f", "-", "f", "f", "f", "f", "f", "f", "f", "f">>, <<"x", "-", "d", "e", "a", "d", "b", "e", "e", "f">>>>

(***************************************************************************)
(* C31..C33: frame of the operations                                       *)
(***************************************************************************)
\* the containers that the step adds, removes or alters, in either state
Touched == (containers \ containers') \cup (containers' \ containers)

\* the process takes a step of its call
Steps(p) == call[p].op # "none" /\ (pc'[p] # pc[p] \/ log'[p] # log[p])

\* every container a step adds, removes or alters has the identity that the call
\* taking the step is about
OnlyOwnIdentity ==
    \A c \in Touched :
        \E p \in Procs : Steps(p) /\ IdentityOf(c) = TargetName(call[p])

\* C31: calls about different identities are independent.  Whatever create,
\* attach, stop or destroy call about identity A takes a step, whether it ends
\* well or fails, alone or between the steps of other calls, the containers of
\* every other identity keep their existence, id, status and labels.
C31_Independent == [][OnlyOwnIdentity]_vars

\* a destroy of the sandbox of /w/a and a create for another identity have both
\* ended well; the create began while the sandbox of /w/a existed
C31_Witness ==
    \E p, q \in Procs :
        /\ p # q
        /\ Done(p, "destroy") /\ result[p] = "ok" /\ TargetName(call[p]) = NameA
        /\ Done(q, "create") /\ result[q] = "ok" /\ TargetName(call[q]) # NameA
        /\ pre[q] # {} /\ ManagedNamed(pre[q], NameA) # {}
        /\ ManagedNamed(containers, NameA) = {}
        /\ ManagedNamed(containers, TargetName(call[q])) # {}

\* the call of p, one of `ops`, looks up the container of the record it resolved
Lookup(p, ops) ==
    /\ call[p].op \in ops
    /\ pc[p] \in {"a_get", "s_get", "x_get"}
    /\ pc'[p] # pc[p]

\* the record has no container id, or the daemon no longer has the container
Stale(p) ==
    \/ loc[p].sandbox[1].container_id = 0
    \/ GetById(loc[p].sandbox[1].container_id) = <<>>

Ids(cs) == {c.id : c \in cs}

\* attach and stop neither add nor remove a container, and only create adds one
NoRepair ==
    \A p \in Procs :
        Steps(p) =>
            /\ call[p].op \in {"attach", "stop"} => Ids(containers') = Ids(containers)
            /\ call[p].op # "create" => Ids(containers') \subseteq Ids(containers)

FailsUnavailable(p) ==
    /\ pc'[p] = "done"
    /\ result'[p] = "RuntimeUnavailable"
    /\ containers' = containers

\* C32: a stale record is reported, not repaired.  When attach, stop or destroy
\* has resolved a record and finds that the record has no container id or that
\* the daemon no longer has the container, the call fails with
\* RuntimeUnavailable; attach and stop never add or remove a container, and no
\* call but create ever adds one.
C32_StaleReported ==
    [][/\ \A p \in Procs :
             (Lookup(p, {"attach", "stop", "destroy"}) /\ Stale(p)) => FailsUnavailable(p)
       /\ NoRepair]_vars

\* C32, amended: when attach or stop has resolved a record and finds that the
\* record has no container id or that the daemon no longer has the container,
\* the call fails with RuntimeUnavailable; destroy in that case ends well
\* without a request to the daemon, the container being gone already; attach
\* and stop never add or remove a container, and no call but create ever adds
\* one.
C32_StaleReportedByAttachAndStop ==
    [][/\ \A p \in Procs :
             /\ (Lookup(p, {"attach", "stop"}) /\ Stale(p)) => FailsUnavailable(p)
             /\ (Lookup(p, {"destroy"}) /\ Stale(p)) =>
                   /\ pc'[p] = "done"
                   /\ result'[p] = "ok"
                   /\ containers' = containers
                   /\ log'[p] = log[p]
       /\ NoRepair]_vars

\* an attach resolved the sandbox of its identity, a destroy removed the container
\* before the attach looked it up: the attach fails and the identity stays absent
C32_Witness ==
    \E p, q \in Procs :
        /\ Done(p, "attach") /\ result[p] = "RuntimeUnavailable"
        /\ Done(q, "destroy") /\ result[q] = "ok"
        /\ TargetName(call[q]) = TargetName(call[p])
        /\ \A c \in containers : IdentityOf(c) # TargetName(call[p])
        /\ Ids(containers) \subseteq Ids(pre[p])

\* the containers of cs that do not carry the management label
Unmanaged(cs) == {c \in cs : ~IsManaged(c)}

\* the call of p names an unmanaged container that was there when it began
NamesUnmanaged(p) ==
    /\ call[p].op # "none"
    /\ \E c \in Unmanaged(pre[p]) : c.name = TargetName(call[p])

\* C33: the manager never starts, stops or removes a container without the
\* management label.  A call that is given the name of an unmanaged container
\* treats the identity as one without a sandbox: create does not destroy the
\* container, not even with force, and attach, stop and destroy fail with
\* NotFound; the container stays, in the status it had.
C33_UnmanagedUntouched ==
    \A p \in Procs :
        /\ Unmanaged(pre[p]) \subseteq containers
        /\ \A i \in DOMAIN log[p] :
              log[p][i].op \in {"start", "stop", "remove"} =>
                  log[p][i].id \notin Ids(Unmanaged(pre[p]) \cup Unmanaged(containers))
        /\ NamesUnmanaged(p) =>
              /\ \A i \in DOMAIN log[p] : log[p][i].op = "create"
              /\ \A j \in DOMAIN prompts[p] : prompts[p][j].kind \notin {"recreate", "destroy"}
              /\ Done(p, "create") => result[p] # "ok"
              /\ (pc[p] = "done" /\ call[p].op \in {"attach", "stop", "destroy"}) =>
                    result[p] = "NotFound"

\* create --force --name x beside the unmanaged container x: nothing is destroyed,
\* the daemon refuses the second container of that name, and x runs on
C33_Witness ==
    \E p \in Procs :
        /\ Done(p, "create")
        /\ call[p].force
        /\ call[p].name = NameX
        /\ result[p] = "APIError"
        /\ UnmanagedX \in pre[p]
        /\ UnmanagedX \in containers
        /\ Len(log[p]) = 1

====
